---- MODULE Spec2Model ----
(***************************************************************************)
(* Directory state tree (rust/treedirstate/src/tree.rs).                   *)
(*                                                                         *)
(* Keys are byte strings, modelled as sequences of byte values.  Option    *)
(* values are modelled as sequences of length at most one: None is <<>>,   *)
(* Some(x) is <<x>>.  A node is [id, entries]; an entry of a node's map is *)
(* [name, tag, file] (tag "f") or [name, tag, node] (tag "d").  Every node *)
(* operation returns the node as the call leaves it (also when the call    *)
(* fails: a load that succeeded before the failure stays), a status        *)
(* st in {"ok", "StoreIo", "CorruptTree", "panic", "panic:load"} and a     *)
(* return value; "panic:load" is the panic of the expect in load.          *)
(***************************************************************************)
EXTENDS Integers, Sequences, FiniteSets, TLC

\* ---------------------------------------------------------------- bounds
MaxKeyLen == 3
MaxFiles == 3
MaxBlocks == 3

\* Nesting of calls the stack holds.  A tree whose blocks all exist and refer
\* to earlier blocks is never deeper than this.
StackLimit == MaxKeyLen + MaxBlocks

\* ---------------------------------------------------------------- bytes and keys
\* Keys are made of '/' and 'a'.
Slash == 47
Bytes == {Slash, 97}

None == <<>>
Some(x) == <<x>>

\* F(v), with v evaluated once and F applied to its value.
Bind(v, F(_)) == CHOOSE y \in {F(x) : x \in {v}} : TRUE

RECURSIVE KeysOfLen(_)
KeysOfLen(n) ==
  IF n = 0 THEN {<<>>}
  ELSE {Append(k, b) : k \in KeysOfLen(n - 1), b \in Bytes}

Keys == UNION {KeysOfLen(n) : n \in 1..MaxKeyLen}
\* Two payloads: the tree never looks inside a payload.
Vals == {1, 2}

\* The keys used with a store: "a" and "/a" are added, "/" is looked up too.
StoreKeys == {<<97>>, <<47, 97>>}
StorePaths == StoreKeys \cup {<<47>>}

\* Vec<u8> ordering: byte-lexicographic, a proper prefix is smaller.
KeyLess(a, b) ==
  \E i \in 1..Len(b) :
     /\ i <= Len(a) + 1
     /\ \A j \in 1..(i - 1) : a[j] = b[j]
     /\ (i = Len(a) + 1 \/ a[i] < b[i])

MinOf(S) == CHOOSE i \in S : \A j \in S : i <= j

split_key(key) ==
  Bind({i \in 1..(Len(key) - 1) : key[i] = Slash}, LAMBDA idx :
    IF idx = {} THEN [head |-> key, tail |-> None]
    ELSE Bind(MinOf(idx), LAMBDA i :
           [head |-> SubSeq(key, 1, i), tail |-> Some(SubSeq(key, i + 1, Len(key)))]))

\* ---------------------------------------------------------------- VecMap
VecMapFind(m, name) ==
  Bind({i \in 1..Len(m) : m[i].name = name}, LAMBDA idx :
    IF idx = {} THEN 0 ELSE MinOf(idx))

VecMapInsert(m, e) ==
  SelectSeq(m, LAMBDA x : KeyLess(x.name, e.name))
    \o <<e>> \o SelectSeq(m, LAMBDA x : KeyLess(e.name, x.name))

VecMapRemove(m, name) == SelectSeq(m, LAMBDA x : x.name # name)

\* ---------------------------------------------------------------- store
StoreRead(view, id) ==
  IF id \in DOMAIN view THEN [st |-> "ok", data |-> view[id]]
  ELSE [st |-> "StoreIo", data |-> None]

NullStore == <<>>

\* ---------------------------------------------------------------- Node
FileEntry(name, file) == [name |-> name, tag |-> "f", file |-> file]
DirEntry(name, node) == [name |-> name, tag |-> "d", node |-> node]

NodeNew == [id |-> None, entries |-> Some(<<>>)]
NodeOpen(id) == [id |-> Some(id), entries |-> None]

Res(st, node, ret) == [st |-> st, node |-> node, ret |-> ret]

\* NodeEntry::read on one serialized entry.
NodeEntryRead(item) ==
  IF item.tag = "f" THEN [st |-> "ok", entry |-> FileEntry(item.name, item.data)]
  ELSE IF item.tag = "d" THEN [st |-> "ok", entry |-> DirEntry(item.name, NodeOpen(item.id))]
  ELSE [st |-> "CorruptTree", entry |-> None]

\* insert_hint_end: append at the end of the map.
insert_hint_end(m, e) == Append(m, e)

RECURSIVE ReadEntries(_, _)
ReadEntries(items, acc) ==
  IF items = <<>> THEN [st |-> "ok", entries |-> acc]
  ELSE Bind(NodeEntryRead(Head(items)), LAMBDA r :
         IF r.st # "ok" THEN [st |-> r.st, entries |-> acc]
         ELSE ReadEntries(Tail(items), insert_hint_end(acc, r.entry)))

\* load keeping the entries parsed before the entry that failed.
loadKeepsParsed(self, view) ==
  IF self.entries # None THEN Res("ok", self, TRUE)
  ELSE IF self.id = None THEN Res("panic:load", self, FALSE)
  ELSE Bind(StoreRead(view, self.id[1]), LAMBDA rd :
         IF rd.st # "ok" THEN Res(rd.st, self, FALSE)
         ELSE Bind(ReadEntries(rd.data.items, <<>>), LAMBDA p :
                Res(p.st, [self EXCEPT !.entries = Some(p.entries)], p.st = "ok")))

\* load taking a block the store cannot read for an empty one.
loadUnreadableAsEmpty(self, view) ==
  IF self.entries # None THEN Res("ok", self, TRUE)
  ELSE IF self.id = None THEN Res("panic:load", self, FALSE)
  ELSE Bind(StoreRead(view, self.id[1]), LAMBDA rd :
         IF rd.st # "ok" THEN Res("ok", [self EXCEPT !.entries = Some(<<>>)], TRUE)
         ELSE Bind(ReadEntries(rd.data.items, <<>>), LAMBDA p :
                IF p.st # "ok" THEN Res(p.st, self, FALSE)
                ELSE Res("ok", [self EXCEPT !.entries = Some(p.entries)], TRUE)))

load(self, view) ==
  IF self.entries # None THEN Res("ok", self, TRUE)
  ELSE IF self.id = None THEN Res("panic:load", self, FALSE)
  ELSE Bind(StoreRead(view, self.id[1]), LAMBDA rd :
         IF rd.st # "ok" THEN Res(rd.st, self, FALSE)
         ELSE Bind(ReadEntries(rd.data.items, <<>>), LAMBDA p :
                IF p.st # "ok" THEN Res(p.st, self, FALSE)
                ELSE Res("ok", [self EXCEPT !.entries = Some(p.entries)], TRUE)))

Entries(node) == node.entries[1]

SetChild(node, i, child) ==
  [node EXCEPT !.entries = Some([Entries(node) EXCEPT ![i] = DirEntry(@.name, child)])]

\* The case of path_recurse for the entry found at index i (0: none found).
PathRecurseKind(entries, i, tail) ==
  IF tail # None
  THEN (IF i = 0 THEN "MissingDirectory"
        ELSE IF entries[i].tag = "d" THEN "Directory"
        ELSE "ConflictingFile")
  ELSE (IF i = 0 THEN "MissingFile"
        ELSE IF entries[i].tag = "d" THEN "ExactDirectory"
        ELSE "File")

\* path_recurse loading the subdirectories of the node as well.
LoadChildren(node, view) ==
  [node EXCEPT !.entries = Some([i \in 1..Len(Entries(node)) |->
     IF Entries(node)[i].tag = "d"
     THEN DirEntry(Entries(node)[i].name, load(Entries(node)[i].node, view).node)
     ELSE Entries(node)[i]])]

path_recurseEager(self, view, name) ==
  Bind(split_key(name), LAMBDA sk :
  Bind(load(self, view), LAMBDA ld :
    IF ld.st # "ok"
    THEN [st |-> ld.st, node |-> ld.node, kind |-> "None", elem |-> sk.head, path |-> sk.tail, idx |-> 0]
    ELSE Bind(LoadChildren(ld.node, view), LAMBDA n :
         Bind(VecMapFind(Entries(n), sk.head), LAMBDA i :
           [st |-> "ok", node |-> n, kind |-> PathRecurseKind(Entries(n), i, sk.tail),
            elem |-> sk.head, path |-> sk.tail, idx |-> i]))))

path_recurse(self, view, name) ==
  Bind(split_key(name), LAMBDA sk :
  Bind(load(self, view), LAMBDA ld :
    IF ld.st # "ok"
    THEN [st |-> ld.st, node |-> ld.node, kind |-> "None", elem |-> sk.head, path |-> sk.tail, idx |-> 0]
    ELSE Bind(VecMapFind(Entries(ld.node), sk.head), LAMBDA i :
           [st |-> "ok", node |-> ld.node, kind |-> PathRecurseKind(Entries(ld.node), i, sk.tail),
            elem |-> sk.head, path |-> sk.tail, idx |-> i])))

Child(pr) == Entries(pr.node)[pr.idx].node

RECURSIVE NodeGet(_, _, _)
\* NodeGet clearing the id of the node in which it finds the file.
NodeGetMarksDirty(self, view, name) ==
  Bind(path_recurse(self, view, name), LAMBDA pr :
    IF pr.st # "ok" THEN Res(pr.st, pr.node, None)
    ELSE IF pr.kind = "Directory"
         THEN Bind(NodeGet(Child(pr), view, pr.path[1]), LAMBDA r :
                Res(r.st, SetChild(pr.node, pr.idx, r.node), r.ret))
    ELSE IF pr.kind = "File"
         THEN Res("ok", [pr.node EXCEPT !.id = None], Some(Entries(pr.node)[pr.idx].file))
    ELSE Res("ok", pr.node, None))

NodeGet(self, view, name) ==
  Bind(path_recurse(self, view, name), LAMBDA pr :
    IF pr.st # "ok" THEN Res(pr.st, pr.node, None)
    ELSE IF pr.kind = "Directory"
         THEN Bind(NodeGet(Child(pr), view, pr.path[1]), LAMBDA r :
                Res(r.st, SetChild(pr.node, pr.idx, r.node), r.ret))
    ELSE IF pr.kind = "File" THEN Res("ok", pr.node, Some(Entries(pr.node)[pr.idx].file))
    ELSE Res("ok", pr.node, None))

RECURSIVE NodeHasDir(_, _, _)
NodeHasDir(self, view, name) ==
  Bind(path_recurse(self, view, name), LAMBDA pr :
    IF pr.st # "ok" THEN Res(pr.st, pr.node, FALSE)
    ELSE IF pr.kind = "Directory"
         THEN Bind(NodeHasDir(Child(pr), view, pr.path[1]), LAMBDA r :
                Res(r.st, SetChild(pr.node, pr.idx, r.node), r.ret))
    ELSE IF pr.kind = "ExactDirectory" THEN Res("ok", pr.node, TRUE)
    ELSE Res("ok", pr.node, FALSE))

\* The arms of the match in add, each with the insert and the `self.id = None`
\* that follow the match.
\* File: clone the payload into the existing leaf.
AddFileKeepsId(pr, info) ==
  Res("ok", [pr.node EXCEPT !.entries = Some([Entries(pr.node) EXCEPT ![pr.idx] = FileEntry(@.name, info)])],
      FALSE)

AddFileKeepsPayload(pr, info) == Res("ok", [pr.node EXCEPT !.id = None], FALSE)

AddFile(pr, info) ==
  Res("ok", [id |-> None,
             entries |-> Some([Entries(pr.node) EXCEPT ![pr.idx] = FileEntry(@.name, info)])],
      FALSE)

\* MissingFile: insert a new leaf.
AddMissingFileReportsUpdate(pr, info) ==
  Res("ok", [id |-> None,
             entries |-> Some(VecMapInsert(Entries(pr.node), FileEntry(pr.elem, info)))],
      FALSE)

\* AddMissingFile clearing also the ids of the subdirectories beside the file.
AddMissingFileDirtiesSiblings(pr, info) ==
  Res("ok", [id |-> None,
             entries |-> Some(VecMapInsert(
                [i \in 1..Len(Entries(pr.node)) |->
                   IF Entries(pr.node)[i].tag = "d"
                   THEN DirEntry(Entries(pr.node)[i].name, [Entries(pr.node)[i].node EXCEPT !.id = None])
                   ELSE Entries(pr.node)[i]],
                FileEntry(pr.elem, info)))],
      TRUE)

AddMissingFile(pr, info) ==
  Res("ok", [id |-> None,
             entries |-> Some(VecMapInsert(Entries(pr.node), FileEntry(pr.elem, info)))],
      TRUE)

\* MissingDirectory: r is the add into the new node.
AddMissingDirectory(pr, r) ==
  IF r.st # "ok" THEN Res(r.st, pr.node, FALSE)
  ELSE Res("ok", [id |-> None,
                  entries |-> Some(VecMapInsert(Entries(pr.node), DirEntry(pr.elem, r.node)))],
           r.ret)

\* Directory: r is the add into the subdirectory.
AddDirectoryKeepsId(pr, r) ==
  IF r.st # "ok" THEN Res(r.st, SetChild(pr.node, pr.idx, r.node), FALSE)
  ELSE Res("ok", SetChild(pr.node, pr.idx, r.node), r.ret)

\* AddDirectory clearing the node's id before it looks at the result.
AddDirectoryDirtyOnError(pr, r) ==
  Res(r.st, [SetChild(pr.node, pr.idx, r.node) EXCEPT !.id = None], r.st = "ok" /\ r.ret)

AddDirectory(pr, r) ==
  IF r.st # "ok" THEN Res(r.st, SetChild(pr.node, pr.idx, r.node), FALSE)
  ELSE Res("ok", [SetChild(pr.node, pr.idx, r.node) EXCEPT !.id = None], r.ret)

RECURSIVE NodeAdd(_, _, _, _)
NodeAdd(self, view, name, info) ==
  Bind(path_recurse(self, view, name), LAMBDA pr :
    IF pr.st # "ok" THEN Res(pr.st, pr.node, FALSE)
    ELSE IF pr.kind = "Directory"
         THEN Bind(NodeAdd(Child(pr), view, pr.path[1], info), LAMBDA r : AddDirectory(pr, r))
    ELSE IF pr.kind = "ExactDirectory" THEN Res("panic", pr.node, FALSE)
    ELSE IF pr.kind = "MissingDirectory"
         THEN Bind(NodeAdd(NodeNew, view, pr.path[1], info), LAMBDA r : AddMissingDirectory(pr, r))
    ELSE IF pr.kind = "File" THEN AddFile(pr, info)
    ELSE IF pr.kind = "MissingFile" THEN AddMissingFile(pr, info)
    ELSE Res("panic", pr.node, FALSE))

\* The arms of the match in remove, each with what follows the match.
\* File: remove the leaf.
RemoveFileKeepsEntry(pr) ==
  Res("ok", [pr.node EXCEPT !.id = None], <<TRUE, Entries(pr.node) = <<>>>>)

RemoveFile(pr) ==
  Bind(VecMapRemove(Entries(pr.node), pr.elem), LAMBDA left :
    Res("ok", [id |-> None, entries |-> Some(left)], <<TRUE, left = <<>>>>))

\* Directory: r is the remove from the subdirectory.
RemoveDirectoryKeepsEmpty(pr, r) ==
  Bind(SetChild(pr.node, pr.idx, r.node), LAMBDA n1 :
    IF r.st # "ok" THEN Res(r.st, n1, <<FALSE, FALSE>>)
    ELSE Res("ok", IF r.ret[1] THEN [n1 EXCEPT !.id = None] ELSE n1,
             <<r.ret[1], Entries(n1) = <<>>>>))

RemoveDirectory(pr, r) ==
  Bind(SetChild(pr.node, pr.idx, r.node), LAMBDA n1 :
    IF r.st # "ok" THEN Res(r.st, n1, <<FALSE, FALSE>>)
    ELSE Bind(IF r.ret[2]
              THEN [id |-> None, entries |-> Some(VecMapRemove(Entries(n1), pr.elem))]
              ELSE n1, LAMBDA n2 :
           Res("ok", IF r.ret[1] THEN [n2 EXCEPT !.id = None] ELSE n2,
               <<r.ret[1], Entries(n2) = <<>>>>)))

\* ret is <<file_removed, now_empty>>.
RECURSIVE NodeRemove(_, _, _)
\* NodeRemove clearing the id also where nothing is removed.
NodeRemoveMarksDirty(self, view, name) ==
  Bind(path_recurse(self, view, name), LAMBDA pr :
    IF pr.st # "ok" THEN Res(pr.st, pr.node, <<FALSE, FALSE>>)
    ELSE IF pr.kind = "Directory"
         THEN Bind(NodeRemove(Child(pr), view, pr.path[1]), LAMBDA r : RemoveDirectory(pr, r))
    ELSE IF pr.kind = "File" THEN RemoveFile(pr)
    ELSE Res("ok", [pr.node EXCEPT !.id = None], <<FALSE, Entries(pr.node) = <<>>>>))

NodeRemove(self, view, name) ==
  Bind(path_recurse(self, view, name), LAMBDA pr :
    IF pr.st # "ok" THEN Res(pr.st, pr.node, <<FALSE, FALSE>>)
    ELSE IF pr.kind = "Directory"
         THEN Bind(NodeRemove(Child(pr), view, pr.path[1]), LAMBDA r : RemoveDirectory(pr, r))
    ELSE IF pr.kind = "File" THEN RemoveFile(pr)
    ELSE Res("ok", pr.node, <<FALSE, Entries(pr.node) = <<>>>>))

\* Returns ret = None, or Some(<<path, file>>) with path the reversed component stack.
\* depth is the nesting of the recursion: the traversals that follow the blocks
\* of the store abort (stack exhaustion) below StackLimit.
RECURSIVE NodeGetFirst(_, _, _), GetFirstLoop(_, _, _, _)
\* GetFirstLoop passing over the directories.
GetFirstLoopFilesOnly(node, i, view, depth) ==
  IF i > Len(Entries(node)) THEN Res("ok", node, None)
  ELSE Bind(Entries(node)[i], LAMBDA e :
         IF e.tag = "d" THEN GetFirstLoop(node, i + 1, view, depth)
         ELSE Res("ok", node, Some(<<<<e.name>>, e.file>>)))

GetFirstLoop(node, i, view, depth) ==
  IF i > Len(Entries(node)) THEN Res("ok", node, None)
  ELSE Bind(Entries(node)[i], LAMBDA e :
         IF e.tag = "d"
         THEN Bind(NodeGetFirst(e.node, view, depth + 1), LAMBDA r :
              Bind(SetChild(node, i, r.node), LAMBDA n1 :
                IF r.st # "ok" THEN Res(r.st, n1, None)
                ELSE IF r.ret # None
                THEN Res("ok", n1, Some(<<Append(r.ret[1][1], e.name), r.ret[1][2]>>))
                ELSE GetFirstLoop(n1, i + 1, view, depth)))
         ELSE Res("ok", node, Some(<<<<e.name>>, e.file>>)))

NodeGetFirst(self, view, depth) ==
  IF depth > StackLimit THEN Res("panic", self, None)
  ELSE Bind(load(self, view), LAMBDA ld :
         IF ld.st # "ok" THEN Res(ld.st, ld.node, None)
         ELSE GetFirstLoop(ld.node, 1, view, depth))

\* First index of the range (Included(elem), Unbounded) of a sorted map.
\* The range start with Bound::Excluded(elem) in place of Bound::Included.
VecMapRangeStartExcluded(m, elem) ==
  Bind({i \in 1..Len(m) : KeyLess(elem, m[i].name)}, LAMBDA idx :
    IF idx = {} THEN Len(m) + 1 ELSE MinOf(idx))

VecMapRangeStart(m, elem) ==
  Bind({i \in 1..Len(m) : ~KeyLess(m[i].name, elem)}, LAMBDA idx :
    IF idx = {} THEN Len(m) + 1 ELSE MinOf(idx))

\* The descent of get_next into the directory entry e: by get_next while the
\* path leads into e, else by get_first.
RECURSIVE NodeGetNext(_, _, _, _), GetNextLoop(_, _, _, _, _, _)
GetNextDescend(e, view, path, depth) ==
  IF path # None THEN NodeGetNext(e.node, view, path[1], depth + 1)
  ELSE NodeGetFirst(e.node, view, depth + 1)

\* GetNextLoop without `path = None` on moving past the directory of elem.
GetNextLoopKeepsPath(node, i, view, elem, path, depth) ==
  IF i > Len(Entries(node)) THEN Res("ok", node, None)
  ELSE Bind(Entries(node)[i], LAMBDA e :
         IF e.tag = "d"
         THEN Bind(GetNextDescend(e, view, path, depth), LAMBDA r :
              Bind(SetChild(node, i, r.node), LAMBDA n1 :
                IF r.st # "ok" THEN Res(r.st, n1, None)
                ELSE IF r.ret # None
                THEN Res("ok", n1, Some(<<Append(r.ret[1][1], e.name), r.ret[1][2]>>))
                ELSE GetNextLoop(n1, i + 1, view, elem, path, depth)))
         ELSE IF elem # e.name THEN Res("ok", node, Some(<<<<e.name>>, e.file>>))
         ELSE GetNextLoop(node, i + 1, view, elem, path, depth))

GetNextLoop(node, i, view, elem, path, depth) ==
  IF i > Len(Entries(node)) THEN Res("ok", node, None)
  ELSE Bind(Entries(node)[i], LAMBDA e :
         IF e.tag = "d"
         THEN Bind(IF elem # e.name THEN None ELSE path, LAMBDA path1 :
              Bind(GetNextDescend(e, view, path1, depth), LAMBDA r :
              Bind(SetChild(node, i, r.node), LAMBDA n1 :
                IF r.st # "ok" THEN Res(r.st, n1, None)
                ELSE IF r.ret # None
                THEN Res("ok", n1, Some(<<Append(r.ret[1][1], e.name), r.ret[1][2]>>))
                ELSE GetNextLoop(n1, i + 1, view, elem, path1, depth))))
         ELSE IF elem # e.name THEN Res("ok", node, Some(<<<<e.name>>, e.file>>))
         ELSE GetNextLoop(node, i + 1, view, elem, path, depth))

NodeGetNext(self, view, name, depth) ==
  Bind(split_key(name), LAMBDA sk :
  Bind(load(self, view), LAMBDA ld :
    IF ld.st # "ok" THEN Res(ld.st, ld.node, None)
    ELSE Bind(VecMapRangeStart(Entries(ld.node), sk.head), LAMBDA i :
           GetNextLoop(ld.node, i, view, sk.head, sk.tail, depth))))

\* ret is the sequence of visitor calls <<component stack, file>>, in call
\* order; path is the component stack as the call leaves it.
VRes(st, node, ret, path) == [st |-> st, node |-> node, ret |-> ret, path |-> path]
Pop(path) == SubSeq(path, 1, Len(path) - 1)

RECURSIVE NodeVisit(_, _, _), VisitLoop(_, _, _, _, _)
\* VisitLoop without the path.pop() after an entry.
VisitLoopKeepsStack(node, i, view, path, calls) ==
  IF i > Len(Entries(node)) THEN VRes("ok", node, calls, path)
  ELSE Bind(Entries(node)[i], LAMBDA e :
       Bind(Append(path, e.name), LAMBDA path1 :
         IF e.tag = "d"
         THEN Bind(NodeVisit(e.node, view, path1), LAMBDA r :
              Bind(SetChild(node, i, r.node), LAMBDA n1 :
              Bind(calls \o r.ret, LAMBDA calls1 :
                IF r.st # "ok" THEN VRes(r.st, n1, calls1, r.path)
                ELSE VisitLoop(n1, i + 1, view, r.path, calls1))))
         ELSE Bind(Append(calls, <<path1, e.file>>), LAMBDA calls1 :
                VisitLoop(node, i + 1, view, path1, calls1))))

VisitLoop(node, i, view, path, calls) ==
  IF i > Len(Entries(node)) THEN VRes("ok", node, calls, path)
  ELSE Bind(Entries(node)[i], LAMBDA e :
       Bind(Append(path, e.name), LAMBDA path1 :
         IF e.tag = "d"
         THEN Bind(NodeVisit(e.node, view, path1), LAMBDA r :
              Bind(SetChild(node, i, r.node), LAMBDA n1 :
              Bind(calls \o r.ret, LAMBDA calls1 :
                IF r.st # "ok" THEN VRes(r.st, n1, calls1, r.path)
                ELSE Bind(Pop(r.path), LAMBDA path2 :
                       VisitLoop(n1, i + 1, view, path2, calls1)))))
         ELSE Bind(Append(calls, <<path1, e.file>>), LAMBDA calls1 :
              Bind(Pop(path1), LAMBDA path2 :
                VisitLoop(node, i + 1, view, path2, calls1)))))

NodeVisit(self, view, path) ==
  IF Len(path) > StackLimit THEN VRes("panic", self, <<>>, path)
  ELSE Bind(load(self, view), LAMBDA ld :
         IF ld.st # "ok" THEN VRes(ld.st, ld.node, <<>>, path)
         ELSE VisitLoop(ld.node, 1, view, path, <<>>))

\* ---------------------------------------------------------------- writing
\* A store handle being written: the blocks and the number of appends that
\* will still succeed before the store starts failing.
StoreAppend(w, data) ==
  IF w.budget = 0 THEN [st |-> "StoreIo", w |-> w, id |-> None]
  ELSE [st |-> "ok",
        w |-> [blocks |-> Append(w.blocks, data), budget |-> w.budget - 1],
        id |-> Some(Len(w.blocks) + 1)]

WRes(st, node, w) == [st |-> st, node |-> node, w |-> w]

\* The serialized form of one entry; a directory is written as its id.
EntryItem(e) ==
  IF e.tag = "f" THEN [tag |-> "f", data |-> e.file, name |-> e.name]
  ELSE [tag |-> "d", id |-> e.node.id[1], name |-> e.name]

\* write_entries giving the node the id it asked for although the append failed.
write_entriesKeepsFailedId(self, w) ==
  IF self.entries = None THEN WRes("panic", self, w)
  ELSE IF \E i \in 1..Len(Entries(self)) : Entries(self)[i].tag = "d" /\ Entries(self)[i].node.id = None
  THEN WRes("panic", self, w)
  ELSE Bind([count |-> Len(Entries(self)),
             items |-> [i \in 1..Len(Entries(self)) |-> EntryItem(Entries(self)[i])]], LAMBDA data :
       Bind(StoreAppend(w, data), LAMBDA a :
         IF a.st # "ok" THEN WRes(a.st, [self EXCEPT !.id = Some(Len(w.blocks) + 1)], w)
         ELSE WRes("ok", [self EXCEPT !.id = a.id], a.w)))

\* write_entries dropping the node's entries once they are written.
write_entriesUnloads(self, w) ==
  IF self.entries = None THEN WRes("panic", self, w)
  ELSE IF \E i \in 1..Len(Entries(self)) : Entries(self)[i].tag = "d" /\ Entries(self)[i].node.id = None
  THEN WRes("panic", self, w)
  ELSE Bind([count |-> Len(Entries(self)),
             items |-> [i \in 1..Len(Entries(self)) |-> EntryItem(Entries(self)[i])]], LAMBDA data :
       Bind(StoreAppend(w, data), LAMBDA a :
         IF a.st # "ok" THEN WRes(a.st, self, w)
         ELSE WRes("ok", [id |-> a.id, entries |-> None], a.w)))

write_entries(self, w) ==
  IF self.entries = None THEN WRes("panic", self, w)
  ELSE IF \E i \in 1..Len(Entries(self)) : Entries(self)[i].tag = "d" /\ Entries(self)[i].node.id = None
  THEN WRes("panic", self, w)
  ELSE Bind([count |-> Len(Entries(self)),
             items |-> [i \in 1..Len(Entries(self)) |-> EntryItem(Entries(self)[i])]], LAMBDA data :
       Bind(StoreAppend(w, data), LAMBDA a :
         IF a.st # "ok" THEN WRes(a.st, self, w)
         ELSE WRes("ok", [self EXCEPT !.id = a.id], a.w)))

RECURSIVE NodeWriteFull(_, _, _, _), WriteFullLoop(_, _, _, _, _)
WriteFullLoop(node, i, w, old_store, depth) ==
  IF i > Len(Entries(node)) THEN WRes("ok", node, w)
  ELSE Bind(Entries(node)[i], LAMBDA e :
         IF e.tag = "d"
         THEN Bind(NodeWriteFull(e.node, w, old_store, depth + 1), LAMBDA r :
              Bind(SetChild(node, i, r.node), LAMBDA n1 :
                IF r.st # "ok" THEN WRes(r.st, n1, r.w)
                ELSE WriteFullLoop(n1, i + 1, r.w, old_store, depth)))
         ELSE WriteFullLoop(node, i + 1, w, old_store, depth))

\* NodeWriteFull leaving a node that has an id as it is, as write_delta does.
NodeWriteFullSkipsClean(self, w, old_store, depth) ==
  IF self.id # None THEN WRes("ok", self, w)
  ELSE IF depth > StackLimit THEN WRes("panic", self, w)
  ELSE Bind(load(self, old_store), LAMBDA ld :
         IF ld.st # "ok" THEN WRes(ld.st, ld.node, w)
         ELSE Bind(WriteFullLoop(ld.node, 1, w, old_store, depth), LAMBDA c :
                IF c.st # "ok" THEN c
                ELSE write_entries(c.node, c.w)))

NodeWriteFull(self, w, old_store, depth) ==
  IF depth > StackLimit THEN WRes("panic", self, w)
  ELSE Bind(load(self, old_store), LAMBDA ld :
         IF ld.st # "ok" THEN WRes(ld.st, ld.node, w)
         ELSE Bind(WriteFullLoop(ld.node, 1, w, old_store, depth), LAMBDA c :
                IF c.st # "ok" THEN c
                ELSE write_entries(c.node, c.w)))

RECURSIVE NodeWriteDelta(_, _), WriteDeltaLoop(_, _, _)
\* WriteDeltaLoop that does not write the child directories.
WriteDeltaLoopSkipsChildren(node, i, w) == WRes("ok", node, w)

WriteDeltaLoop(node, i, w) ==
  IF i > Len(Entries(node)) THEN WRes("ok", node, w)
  ELSE Bind(Entries(node)[i], LAMBDA e :
         IF e.tag = "d"
         THEN Bind(NodeWriteDelta(e.node, w), LAMBDA r :
              Bind(SetChild(node, i, r.node), LAMBDA n1 :
                IF r.st # "ok" THEN WRes(r.st, n1, r.w)
                ELSE WriteDeltaLoop(n1, i + 1, r.w)))
         ELSE WriteDeltaLoop(node, i + 1, w))

\* NodeWriteDelta writing every loaded node again, also one that has an id.
NodeWriteDeltaRewritesClean(self, w) ==
  IF self.entries = None
  THEN (IF self.id = None THEN WRes("panic", self, w) ELSE WRes("ok", self, w))
  ELSE Bind(WriteDeltaLoop(self, 1, w), LAMBDA c :
         IF c.st # "ok" THEN c
         ELSE write_entries(c.node, c.w))

NodeWriteDelta(self, w) ==
  IF self.id = None
  THEN IF self.entries = None THEN WRes("panic", self, w)
       ELSE Bind(WriteDeltaLoop(self, 1, w), LAMBDA c :
              IF c.st # "ok" THEN c
              ELSE write_entries(c.node, c.w))
  ELSE WRes("ok", self, w)

\* ---------------------------------------------------------------- Tree
\* A tree is [root, file_count].  Tree operations return the tree as the call
\* leaves it, the status and the value returned to the caller.
TreeNew == [root |-> NodeNew, file_count |-> 0]
\* Tree::open not given the file count of the written tree.
TreeOpenWithoutCount(root_id, file_count) == [root |-> NodeOpen(root_id), file_count |-> 0]

TreeOpen(root_id, file_count) == [root |-> NodeOpen(root_id), file_count |-> file_count]

TRes(st, t, ret) == [st |-> st, tree |-> t, ret |-> ret]

RECURSIVE ConcatReversed(_)
ConcatReversed(path) ==
  IF path = <<>> THEN <<>>
  ELSE path[Len(path)] \o ConcatReversed(SubSeq(path, 1, Len(path) - 1))

RECURSIVE Concat(_)
Concat(path) == IF path = <<>> THEN <<>> ELSE Head(path) \o Concat(Tail(path))

TreeGet(t, view, name) ==
  Bind(NodeGet(t.root, view, name), LAMBDA r :
    TRes(r.st, [t EXCEPT !.root = r.node], r.ret))

TreeHasDir(t, view, name) ==
  Bind(NodeHasDir(t.root, view, name), LAMBDA r :
    TRes(r.st, [t EXCEPT !.root = r.node], r.ret))

\* TreeAdd counting every successful add, also one that updates a file.
TreeAddCountsUpdates(t, view, name, file) ==
  Bind(NodeAdd(t.root, view, name, file), LAMBDA r :
    TRes(r.st,
         [root |-> r.node,
          file_count |-> IF r.st = "ok" THEN t.file_count + 1 ELSE t.file_count],
         None))

\* Tree::add that marks the root as changed before the add has loaded it.
TreeAddMarksRootFirst(t, view, name, file) ==
  Bind(NodeAdd(t.root, view, name, file), LAMBDA r :
    TRes(r.st,
         [root |-> [r.node EXCEPT !.id = None],
          file_count |-> IF r.st = "ok" /\ r.ret THEN t.file_count + 1 ELSE t.file_count],
         None))

TreeAdd(t, view, name, file) ==
  Bind(NodeAdd(t.root, view, name, file), LAMBDA r :
    TRes(r.st,
         [root |-> r.node,
          file_count |-> IF r.st = "ok" /\ r.ret THEN t.file_count + 1 ELSE t.file_count],
         None))

TreeRemove(t, view, name) ==
  Bind(NodeRemove(t.root, view, name), LAMBDA r :
  Bind(r.st = "ok" /\ r.ret[1], LAMBDA removed :
    IF removed /\ ~(t.file_count > 0) THEN TRes("panic", [t EXCEPT !.root = r.node], FALSE)
    ELSE TRes(r.st,
              [root |-> r.node,
               file_count |-> IF removed THEN t.file_count - 1 ELSE t.file_count],
              removed)))

\* ret is None or Some(<<key, file>>).
TreeGetFirst(t, view) ==
  Bind(NodeGetFirst(t.root, view, 0), LAMBDA r :
    TRes(r.st, [t EXCEPT !.root = r.node],
         IF r.ret = None THEN None ELSE Some(<<ConcatReversed(r.ret[1][1]), r.ret[1][2]>>)))

TreeGetNext(t, view, name) ==
  Bind(NodeGetNext(t.root, view, name, 0), LAMBDA r :
    TRes(r.st, [t EXCEPT !.root = r.node],
         IF r.ret = None THEN None ELSE Some(<<ConcatReversed(r.ret[1][1]), r.ret[1][2]>>)))

\* ret is the sequence of <<path.concat(), file>> the test visitor collects.
TreeVisit(t, view) ==
  Bind(NodeVisit(t.root, view, <<>>), LAMBDA r :
    TRes(r.st, [t EXCEPT !.root = r.node],
         [i \in 1..Len(r.ret) |-> <<Concat(r.ret[i][1]), r.ret[i][2]>>]))

TreeWriteFull(t, w, old_store) ==
  Bind(NodeWriteFull(t.root, w, old_store, 0), LAMBDA r :
    [st |-> r.st, tree |-> [t EXCEPT !.root = r.node], w |-> r.w])

TreeWriteDelta(t, w) ==
  Bind(NodeWriteDelta(t.root, w), LAMBDA r :
    [st |-> r.st, tree |-> [t EXCEPT !.root = r.node], w |-> r.w])

\* ---------------------------------------------------------------- the program
\* tree:  the Tree the caller owns.
\* store: the blocks of the store the caller keeps for the tree.
\* last:  the last call and what it returned; prev, pstore: the tree and the
\*        store before that call.  The caller looks at a call's result and
\*        either makes a further call on the same key or forgets the result
\*        (Forget), after which any call may follow.
\* iter:  the keys and payloads an iteration by get_first / get_next has
\*        returned so far.
\* stale: a write_full into a new store has failed after some of its appends,
\*        and left ids of the abandoned store in the tree; the caller then
\*        only reads, writes the whole tree again, reopens or clears.
VARIABLES tree, store, last, prev, pstore, iter, stale

vars == <<tree, store, last, prev, pstore, iter, stale>>

Call(op, key, val, st, ret) == [op |-> op, key |-> key, val |-> val, st |-> st, ret |-> ret]

NoIter == [on |-> FALSE, done |-> FALSE, seen |-> <<>>]

Init ==
  /\ tree = TreeNew
  /\ store = <<>>
  /\ last = Call("new", <<>>, 0, "ok", None)
  /\ prev = TreeNew
  /\ pstore = <<>>
  /\ iter = NoIter
  /\ stale = FALSE

Fresh == last.op \in {"new", "idle"}
Running == last.st \notin {"panic", "panic:load"}
MayCall == Running /\ Fresh
\* add and remove may also follow an add of the same key at once.
MayChange(key) ==
  /\ Running
  /\ ~stale
  /\ Fresh \/ (last.op = "add" /\ last.st = "ok" /\ last.key = key)

Views == {store, NullStore}

Record(r, op, key, val) ==
  /\ tree' = r.tree
  /\ last' = Call(op, key, val, r.st, r.ret)
  /\ prev' = tree
  /\ pstore' = store
  /\ store' = store
  /\ iter' = NoIter
  /\ stale' = (stale /\ op \notin {"clear", "open"})

Add(name, file, view) ==
  /\ MayChange(name)
  /\ \E r \in {TreeAdd(tree, view, name, file)} :
       /\ r.tree.file_count <= MaxFiles
       /\ Record(r, "add", name, file)

Remove(name, view) ==
  /\ MayChange(name)
  /\ \E r \in {TreeRemove(tree, view, name)} : Record(r, "remove", name, 0)

Get(name, view) ==
  /\ MayCall
  /\ \E r \in {TreeGet(tree, view, name)} : Record(r, "get", name, 0)

HasDir(name, view) ==
  /\ MayCall
  /\ \E r \in {TreeHasDir(tree, view, name)} : Record(r, "has_dir", name, 0)

Visit(view) ==
  /\ MayCall
  /\ \E r \in {TreeVisit(tree, view)} : Record(r, "visit", <<>>, 0)

Clear ==
  /\ MayCall
  /\ Record(TRes("ok", TreeNew, None), "clear", <<>>, 0)

\* Tree::open with the (root_id, file_count) pair of the tree as last written.
Open ==
  /\ MayCall
  /\ tree.root.id # None
  /\ Record(TRes("ok", TreeOpen(tree.root.id[1], tree.file_count), None), "open", <<>>, 0)

\* An iteration: get_first, then get_next with the key returned before.
GetFirst(view) ==
  /\ MayCall
  /\ \E r \in {TreeGetFirst(tree, view)} :
       /\ tree' = r.tree
       /\ last' = Call("get_first", <<>>, 0, r.st, r.ret)
       /\ iter' = [on |-> r.st = "ok" /\ r.ret # None,
                   done |-> r.st = "ok" /\ r.ret = None,
                   seen |-> IF r.st = "ok" /\ r.ret # None THEN <<r.ret[1]>> ELSE <<>>]
  /\ prev' = tree /\ pstore' = store /\ store' = store /\ stale' = stale

GetNextIter(view) ==
  /\ Running
  /\ iter.on
  /\ \E name \in {iter.seen[Len(iter.seen)][1]} :
     \E r \in {TreeGetNext(tree, view, name)} :
       /\ tree' = r.tree
       /\ last' = Call("get_next", name, 0, r.st, r.ret)
       /\ iter' = [on |-> r.st = "ok" /\ r.ret # None,
                   done |-> r.st = "ok" /\ r.ret = None,
                   seen |-> IF r.st = "ok" /\ r.ret # None THEN Append(iter.seen, r.ret[1]) ELSE iter.seen]
  /\ prev' = tree /\ pstore' = store /\ store' = store /\ stale' = stale

\* get_next with any key.
GetNext(name, view) ==
  /\ MayCall
  /\ \E r \in {TreeGetNext(tree, view, name)} : Record(r, "get_next", name, 0)

\* write_full into a new, empty store that takes the place of the old one once
\* the write has succeeded; the old store is the view.  budget is the number of
\* appends the new store accepts before it fails.
WriteFullNew(budget, useOld) ==
  /\ MayCall
  /\ \E r \in {TreeWriteFull(tree, [blocks |-> <<>>, budget |-> budget],
                             IF useOld THEN store ELSE NullStore)} :
       /\ tree' = r.tree
       /\ store' = IF r.st = "ok" THEN r.w.blocks ELSE store
       /\ last' = Call("write_full", <<>>, 0, r.st, r.w.blocks)
       /\ stale' = (r.st # "ok" /\ (stale \/ r.w.blocks # <<>>))
  /\ prev' = tree /\ pstore' = store /\ iter' = NoIter

\* write_full into the tree's own store, with a NullStore as the view.
WriteFullSame(budget) ==
  /\ MayCall /\ ~stale
  /\ \E r \in {TreeWriteFull(tree, [blocks |-> store, budget |-> budget], NullStore)} :
       /\ tree' = r.tree
       /\ store' = r.w.blocks
       /\ last' = Call("write_full_same", <<>>, 0, r.st, r.w.blocks)
  /\ prev' = tree /\ pstore' = store /\ iter' = NoIter /\ stale' = stale

WriteDelta(budget) ==
  /\ MayCall /\ ~stale
  /\ \E r \in {TreeWriteDelta(tree, [blocks |-> store, budget |-> budget])} :
       /\ tree' = r.tree
       /\ store' = r.w.blocks
       /\ last' = Call("write_delta", <<>>, 0, r.st, r.w.blocks)
  /\ prev' = tree /\ pstore' = store /\ iter' = NoIter /\ stale' = stale

Forget ==
  /\ Running
  /\ ~Fresh
  /\ last' = Call("idle", <<>>, 0, "ok", None)
  /\ prev' = tree
  /\ pstore' = store
  /\ iter' = NoIter
  /\ UNCHANGED <<tree, store, stale>>

\* The calls on a tree, adding the keys of K and looking up the keys of Q.
Calls(K, Q) ==
  \/ \E k \in K, v \in Vals, w \in Views : Add(k, v, w)
  \/ \E k \in Q, w \in Views : Remove(k, w)
  \/ \E k \in Q, w \in Views : Get(k, w)
  \/ \E k \in Q, w \in Views : HasDir(k, w)
  \/ \E k \in Q, w \in Views : GetNext(k, w)
  \/ \E w \in Views : GetFirst(w)
  \/ \E w \in Views : GetNextIter(w)
  \/ \E w \in Views : Visit(w)
  \/ Clear
  \/ Forget

\* A tree made by Tree::new() and never written.
Next == Calls(Keys, Keys)

Spec == Init /\ [][Next]_vars

\* The same calls over fewer keys, with the writes and the reopening.
StoreNext ==
  \/ Calls(StoreKeys, StorePaths)
  \/ Open
  \/ \E b \in 0..MaxBlocks, o \in BOOLEAN : WriteFullNew(b, o)
  \/ \E b \in 0..(MaxBlocks - Len(store)) : WriteFullSame(b)
  \/ \E b \in 0..(MaxBlocks - Len(store)) : WriteDelta(b)

SpecStore == Init /\ [][StoreNext]_vars

\* ---------------------------------------------------------------- what a tree holds
\* The entries of a node: those in memory, else those of its block.
EntriesIn(node, view) ==
  IF node.entries # None THEN Entries(node)
  ELSE IF node.id # None /\ node.id[1] \in DOMAIN view
       THEN [i \in 1..Len(view[node.id[1]].items) |->
               IF view[node.id[1]].items[i].tag = "d"
               THEN DirEntry(view[node.id[1]].items[i].name, NodeOpen(view[node.id[1]].items[i].id))
               ELSE FileEntry(view[node.id[1]].items[i].name, view[node.id[1]].items[i].data)]
       ELSE <<>>

\* The number of File leaves below a node.
RECURSIVE LeafCount(_, _), LeafSum(_, _, _)
LeafSum(ents, i, view) ==
  IF i > Len(ents) THEN 0
  ELSE (IF ents[i].tag = "f" THEN 1 ELSE LeafCount(ents[i].node, view)) + LeafSum(ents, i + 1, view)
LeafCount(node, view) == LeafSum(EntriesIn(node, view), 1, view)

\* The files below a node as <<key, payload>>, prefix being the path of the node.
RECURSIVE FileSet(_, _, _)
FileSet(node, view, prefix) ==
  LET ents == EntriesIn(node, view)
  IN UNION {IF ents[i].tag = "f" THEN {<<prefix \o ents[i].name, ents[i].file>>}
            ELSE FileSet(ents[i].node, view, prefix \o ents[i].name) : i \in 1..Len(ents)}

Files(t, view) == FileSet(t.root, view, <<>>)
FileKeys(t, view) == {f[1] : f \in Files(t, view)}

\* ---------------------------------------------------------------- claims
\* C1: count conservation.  After any sequence of calls on a tree made by
\* Tree::new(), file_count is the number of File leaves below the root.
C1_CountConservation == tree.file_count = LeafCount(tree.root, store)

\* C1 witness: a remove has taken a file out of a tree that still holds two.
C1_Witness ==
  /\ last.op = "remove" /\ last.st = "ok" /\ last.ret = TRUE
  /\ tree.file_count = 2
  /\ LeafCount(tree.root, store) = 2

\* C2: ordered iteration.  The keys get_first and the get_next calls that
\* follow it return are files of the tree with their own payloads, in strictly
\* ascending order; when get_next returns none, every file has been returned.
C2_OrderedIteration ==
  /\ \A i \in 1..Len(iter.seen) : iter.seen[i] \in Files(tree, store)
  /\ \A i \in 1..(Len(iter.seen) - 1) : KeyLess(iter.seen[i][1], iter.seen[i + 1][1])
  /\ iter.done => {iter.seen[i] : i \in 1..Len(iter.seen)} = Files(tree, store)
  /\ (iter.on \/ iter.done) => last.op \in {"get_first", "get_next"} /\ last.st = "ok"

\* C2 witness: an iteration has ended after three files, one in a directory
\* and two in the root, one before and one after the directory.
C2_Witness ==
  /\ iter.done
  /\ last.op = "get_next" /\ last.ret = None
  /\ Len(iter.seen) = 3
  /\ Len(split_key(iter.seen[1][1]).head) = Len(iter.seen[1][1])
  /\ split_key(iter.seen[2][1]).tail # None
  /\ split_key(iter.seen[3][1]).tail = None

\* What get returns for every key: the observations two trees are compared by.
GetAll(t, view) == [k \in Keys |-> [st |-> TreeGet(t, view, k).st, ret |-> TreeGet(t, view, k).ret]]
AllGetsOk(t, view) == \A k \in Keys : TreeGet(t, view, k).st = "ok"

\* The directory nodes held in memory at and below a node.
RECURSIVE Nodes(_)
Nodes(node) ==
  {node} \cup
  (IF node.entries = None THEN {}
   ELSE UNION {IF Entries(node)[i].tag = "d" THEN Nodes(Entries(node)[i].node) ELSE {}
               : i \in 1..Len(Entries(node))})

IsDirty(node) == node.id = None
IsUnloaded(node) == node.entries = None
IsCleanLoaded(node) == node.id # None /\ node.entries # None

\* C3: full-write round trip.  After a write_full that succeeded, the tree
\* opened from (root_id, file_count) and read from the written store alone
\* returns for every key what the tree returned before the write.
C3_FullWriteRoundTrip ==
  (last.op \in {"write_full", "write_full_same"} /\ last.st = "ok") =>
     /\ tree.root.id # None
     /\ AllGetsOk(prev, pstore)
     /\ GetAll(TreeOpen(tree.root.id[1], tree.file_count), store) = GetAll(prev, pstore)

\* C3 witness: a write_full into a new store has succeeded on a tree of two
\* files whose root was dirty and whose subdirectory was clean and unloaded.
C3_Witness ==
  /\ last.op = "write_full" /\ last.st = "ok"
  /\ prev.file_count = 2
  /\ IsDirty(prev.root)
  /\ \E n \in Nodes(prev.root) : IsUnloaded(n)
  /\ store # pstore

\* C4: delta equivalence.  After a write_delta into the tree's store that
\* succeeded, the tree opened from (root_id, file_count) and read from that
\* store returns for every key what the tree returned before the write.
C4_DeltaEquivalence ==
  (last.op = "write_delta" /\ last.st = "ok") =>
     /\ tree.root.id # None
     /\ AllGetsOk(prev, pstore)
     /\ GetAll(TreeOpen(tree.root.id[1], tree.file_count), store) = GetAll(prev, pstore)

\* C4 witness: a later round.  The tree had been opened from the store, its
\* root was changed while a subdirectory stayed unloaded, and write_delta
\* appended to the blocks of the earlier writes.
C4_Witness ==
  /\ last.op = "write_delta" /\ last.st = "ok"
  /\ Len(pstore) >= 2 /\ Len(store) > Len(pstore)
  /\ prev.file_count = 2
  /\ IsDirty(prev.root)
  /\ \E n \in Nodes(prev.root) : IsUnloaded(n)
\* The directory paths above key k: every prefix of k that ends with a '/'
\* which is not the last byte of k.
AncestorDirs(k) == {SubSeq(k, 1, i) : i \in {j \in 1..(Len(k) - 1) : k[j] = Slash}}

\* C5: after add(k, v) returns, get(k) returns v, whether k was inserted or its
\* payload overwritten, and has_dir is true for every ancestor directory path
\* of k.
C5_AddThenGet ==
  (last.op = "add" /\ last.st = "ok") =>
    /\ TreeGet(tree, store, last.key).st = "ok"
    /\ TreeGet(tree, store, last.key).ret = Some(last.val)
    /\ \A d \in AncestorDirs(last.key) : TreeHasDir(tree, store, d).ret = TRUE

\* A file added two directories deep into a tree that had neither directory.
C5_Witness ==
  /\ last.op = "add" /\ last.st = "ok"
  /\ Cardinality(AncestorDirs(last.key)) = 2
  /\ prev.file_count = 1 /\ tree.file_count = 2
  /\ \A d \in AncestorDirs(last.key) : TreeHasDir(prev, pstore, d).ret = FALSE
  /\ TreeGet(tree, store, last.key).ret = Some(last.val)

\* Whether key k is a file of tree t.
IsFile(t, view, k) == TreeGet(t, view, k).ret # None

\* What Node::add returned to the Tree::add recorded in last.
AddReturned == NodeAdd(prev.root, pstore, last.key, last.val).ret

C6_ReturnsTrueIffNew ==
  (last.op = "add" /\ last.st = "ok") =>
    /\ AddReturned = ~IsFile(prev, pstore, last.key)
    /\ tree.file_count = prev.file_count + (IF IsFile(prev, pstore, last.key) THEN 0 ELSE 1)

C6_SecondAdd ==
  (/\ last.op = "add" /\ last.st = "ok"
   /\ last'.op = "add" /\ last'.st = "ok" /\ last'.key = last.key)
  => tree'.file_count = tree.file_count

\* C6: Node::add returns true iff the key was not a file before the call, and
\* an add of key k that follows an add of k, with the same or another payload,
\* leaves file_count unchanged.
C6_IdempotentAdd == [](C6_ReturnsTrueIffNew) /\ [][C6_SecondAdd]_vars

\* The second of two adds of a key in a directory, with another payload.
C6_Witness ==
  /\ last.op = "add" /\ last.st = "ok"
  /\ AncestorDirs(last.key) # {}
  /\ IsFile(prev, pstore, last.key)
  /\ TreeGet(prev, pstore, last.key).ret # Some(last.val)
  /\ TreeGet(tree, store, last.key).ret = Some(last.val)
  /\ prev.file_count = 2 /\ tree.file_count = 2
  /\ AddReturned = FALSE

\* What has_dir answers for every path.
HasDirAll(t, view) == [d \in Keys |-> TreeHasDir(t, view, d).ret]

\* A step from the state after add(k, v), where k was not a file of the tree
\* before (prev), to the state after remove(k).
AddThenRemove ==
  /\ last.op = "add" /\ last.st = "ok" /\ ~IsFile(prev, pstore, last.key)
  /\ last'.op = "remove" /\ last'.st = "ok" /\ last'.key = last.key

C7_Restored ==
  AddThenRemove =>
    /\ last'.ret = TRUE
    /\ tree'.file_count = prev.file_count
    /\ TreeGet(tree', store', last.key).ret = None
    /\ GetAll(tree', store') = GetAll(prev, pstore)
    /\ HasDirAll(tree', store') = HasDirAll(prev, pstore)

\* C7: add(k, v) on a tree in which k is not a file, followed by remove(k),
\* restores file_count, yields get(k) = none and leaves get of every other key
\* and has_dir of every path as they were before the add.
C7_RemoveInverse == [][C7_Restored]_vars

\* The state after remove(k) has taken out a file and the two directories
\* above it, which held nothing else, and left another file.
C7_Witness ==
  /\ last.op = "remove" /\ last.st = "ok" /\ last.ret = TRUE
  /\ prev.file_count = 2 /\ tree.file_count = 1
  /\ Cardinality(AncestorDirs(last.key)) = 2
  /\ \A d \in AncestorDirs(last.key) :
       TreeHasDir(prev, pstore, d).ret = TRUE /\ TreeHasDir(tree, store, d).ret = FALSE
  /\ TreeGet(tree, store, last.key).ret = None

\* Path p is a proper prefix of key k.
ProperPrefix(p, k) == Len(p) < Len(k) /\ SubSeq(k, 1, Len(p)) = p

\* Some file of tree t lies beneath the directory path d.
HasFileBeneath(t, view, d) == \E k \in FileKeys(t, view) : ProperPrefix(d, k)

\* C8: after remove has deleted a file, has_dir is false for every ancestor
\* directory of the file that has no file beneath it any more, and true for
\* every ancestor directory that still has one.
C8_DirectoryCleanup ==
  (last.op = "remove" /\ last.st = "ok" /\ last.ret = TRUE) =>
    \A d \in AncestorDirs(last.key) :
      /\ TreeHasDir(prev, pstore, d).ret = TRUE
      /\ TreeHasDir(tree, store, d).ret = HasFileBeneath(tree, store, d)

\* A remove of the only file two directories deep: the inner directory is
\* gone, the outer one stays with its other file.
C8_Witness ==
  /\ last.op = "remove" /\ last.st = "ok" /\ last.ret = TRUE
  /\ Cardinality(AncestorDirs(last.key)) = 2
  /\ \E d \in AncestorDirs(last.key) :
       /\ TreeHasDir(tree, store, d).ret = FALSE
       /\ ~HasFileBeneath(tree, store, d)
  /\ \E d \in AncestorDirs(last.key) :
       /\ TreeHasDir(tree, store, d).ret = TRUE
       /\ HasFileBeneath(tree, store, d)

EndsWithSlash(p) == p[Len(p)] = Slash

\* has_dir(p) is true iff p ends with '/' and some file lies beneath p.
HasDirIff ==
  (last.op = "has_dir" /\ last.st = "ok") =>
    last.ret = (EndsWithSlash(last.key) /\ HasFileBeneath(prev, pstore, last.key))

\* has_dir(p) is false where p is the key of a file, the key of a file followed
\* by '/', or a directory path without its trailing '/'.
HasDirFalseCases ==
  (last.op = "has_dir" /\ last.st = "ok") =>
    /\ IsFile(prev, pstore, last.key) => last.ret = FALSE
    /\ (EndsWithSlash(last.key) /\ Len(last.key) > 1
        /\ IsFile(prev, pstore, SubSeq(last.key, 1, Len(last.key) - 1)))
       => last.ret = FALSE
    /\ (~EndsWithSlash(last.key)
        /\ TreeHasDir(prev, pstore, Append(last.key, Slash)).ret = TRUE)
       => last.ret = FALSE

\* C9: has_dir(p) returns true iff p ends with '/' and at least one file key of
\* the tree has p as a proper prefix; in particular it returns false for the
\* key of a file, for the key of a file followed by '/', and for a directory
\* path written without its trailing '/'.
C9_HasDirAsStated == HasDirIff /\ HasDirFalseCases

\* has_dir("a/") has returned true on a tree that holds the file "a".
C9_Witness ==
  /\ last.op = "has_dir" /\ last.st = "ok" /\ last.ret = TRUE
  /\ last.key = <<97, Slash>>
  /\ IsFile(prev, pstore, <<97>>)
  /\ HasFileBeneath(prev, pstore, last.key)

\* C10: every node of the tree has an id or has its entries in memory, after
\* every call, failed calls included, and the expect in load has not failed.
C10_IdOrEntries ==
  /\ \A n \in Nodes(tree.root) : n.id # None \/ n.entries # None
  /\ \A n \in Nodes(tree.root) : \A w \in Views : load(n, w).st # "panic:load"
  /\ last.st # "panic:load"

\* An add through a NullStore has failed on a reopened tree and left its root
\* unloaded, with the id it was opened with.
C10_Witness ==
  /\ last.op = "add" /\ last.st = "StoreIo"
  /\ IsUnloaded(tree.root) /\ ~IsDirty(tree.root)
  /\ tree.file_count = 2

\* The loaded entries of node n are the contents of block b: the same names
\* in the same order, the same payloads, and the child directories' ids.
EntriesAreBlock(n, b) ==
  /\ Len(Entries(n)) = Len(b.items)
  /\ \A i \in 1..Len(b.items) :
       /\ Entries(n)[i].name = b.items[i].name
       /\ Entries(n)[i].tag = b.items[i].tag
       /\ Entries(n)[i].tag = "f" => Entries(n)[i].file = b.items[i].data
       /\ Entries(n)[i].tag = "d" => Entries(n)[i].node.id = Some(b.items[i].id)

\* Every loaded node of tree t that has an id holds the contents of the block
\* of store st under that id, and has no node without an id beneath it.
Coherent(t, st) ==
  \A n \in Nodes(t.root) :
    (n.id # None /\ n.entries # None) =>
      /\ n.id[1] \in DOMAIN st
      /\ EntriesAreBlock(n, st[n.id[1]])
      /\ \A d \in Nodes(n) : d.id # None

\* A call that returns normally keeps the tree coherent with the store.
CoherenceKept == (Coherent(tree, store) /\ last'.st = "ok") => Coherent(tree', store')

\* C11: a new tree is coherent and every successful operation keeps it so: a
\* loaded node that has an id holds exactly the contents of the block stored
\* under that id, all its loaded descendant directories have ids, and a node
\* above a changed (id = None) node has no id.
C11_CleanNodeCoherence == Coherent(tree, store) /\ [][CoherenceKept]_vars

\* A reopened tree whose root and subdirectory have been loaded by a get,
\* both with their ids.
C11_Witness ==
  /\ Coherent(tree, store) /\ Coherent(prev, pstore) /\ last.op = "get" /\ last.st = "ok" /\ last.ret # None
  /\ IsUnloaded(prev.root)
  /\ IsCleanLoaded(tree.root)
  /\ Cardinality(Nodes(tree.root)) = 2
  /\ \A n \in Nodes(tree.root) : IsCleanLoaded(n)
  /\ tree.file_count = 2

\* Node n holds a file entry and a directory entry named as that file
\* followed by '/'.
FileBesideDirectory(n) ==
  /\ n.entries # None
  /\ \E i, j \in 1..Len(Entries(n)) :
       /\ Entries(n)[i].tag = "f"
       /\ Entries(n)[j].tag = "d"
       /\ Entries(n)[j].name = Append(Entries(n)[i].name, Slash)

\* C12: no directory node holds a file entry named n together with a
\* directory entry named n followed by '/'.
C12_NoFileAndDirectory == \A n \in Nodes(tree.root) : ~FileBesideDirectory(n)

\* An add has returned normally and left the file "a" beside the directory
\* "a/" in the root.
C12_Witness ==
  /\ last.op = "add" /\ last.st = "ok"
  /\ FileBesideDirectory(tree.root)
  /\ ~FileBesideDirectory(prev.root)
  /\ IsFile(tree, store, <<97>>)
  /\ TreeHasDir(tree, store, <<97, Slash>>).ret = TRUE

\* The parent components of key k: every prefix of k that ends just before a
\* '/' which is not the last byte of k.
ParentComponents(k) == {SubSeq(k, 1, i - 1) : i \in {j \in 2..(Len(k) - 1) : k[j] = Slash}}

\* Key k collides with tree t: k is the path of a directory of t, or a parent
\* component of k is the key of a file of t.
CollidesWithDirectory(t, view, k) == TreeHasDir(t, view, k).ret = TRUE
CollidesWithFile(t, view, k) == \E p \in ParentComponents(k) : IsFile(t, view, p)

\* C13: add(k, v) panics instead of returning whenever k is the path of an
\* existing directory or a parent component of k is the key of an existing
\* file.
C13_AddPanicsOnCollision ==
  (last.op = "add" /\ (CollidesWithDirectory(prev, pstore, last.key)
                       \/ CollidesWithFile(prev, pstore, last.key)))
    => last.st = "panic"

\* add of the path of an existing directory panics.
AddPanicsOnDirectory ==
  (last.op = "add" /\ CollidesWithDirectory(prev, pstore, last.key)) => last.st = "panic"

\* add("a/a", v) has returned normally on a tree in which "a" was a file.
C13_Witness ==
  /\ last.op = "add" /\ last.st = "ok"
  /\ last.key = <<97, Slash, 97>>
  /\ IsFile(prev, pstore, <<97>>)
  /\ CollidesWithFile(prev, pstore, last.key)
  /\ ~CollidesWithDirectory(prev, pstore, last.key)
  /\ IsFile(tree, store, last.key)

\* Key k passes through a file of tree t as if it were a directory: a parent
\* component of k, with or without the '/' that follows it, is the key of a
\* file.
PassesThroughFile(t, view, k) ==
  \/ CollidesWithFile(t, view, k)
  \/ \E p \in AncestorDirs(k) : IsFile(t, view, p)

\* What the claim says of the last call, a get, has_dir or remove of a key
\* that collides with the tree before the call.
ObservedCollision ==
  /\ last.op \in {"get", "has_dir", "remove"}
  /\ \/ CollidesWithDirectory(prev, pstore, last.key)
     \/ PassesThroughFile(prev, pstore, last.key)

ReportsNotFound ==
  /\ last.st = "ok"
  /\ last.op = "get" => last.ret = None
  /\ last.op = "has_dir" => last.ret = CollidesWithDirectory(prev, pstore, last.key)
  /\ last.op = "remove" => (last.ret = FALSE /\ tree = prev)

\* C14: get, has_dir and remove do not abort on a colliding key: when the key
\* names an existing directory or passes through an existing file as if it
\* were a directory, get returns none, has_dir returns false (true for the
\* exact directory path), and remove returns false and leaves the tree as it
\* was.
C14_CollisionsReportNotFound == ObservedCollision => ReportsNotFound

\* get, has_dir and remove do not panic, whatever the key.
ObserversNeverPanic ==
  last.op \in {"get", "has_dir", "remove"} => last.st \notin {"panic", "panic:load"}

\* The claim in the states where no node holds a file beside its directory.
CollisionsReportNotFoundElsewhere ==
  (\A n \in Nodes(prev.root) : ~FileBesideDirectory(n)) => C14_CollisionsReportNotFound

\* get("a/a") has returned a payload although "a" is a file of the tree.
C14_Witness ==
  /\ last.op = "get" /\ last.st = "ok" /\ last.ret # None
  /\ last.key = <<97, Slash, 97>>
  /\ IsFile(prev, pstore, <<97>>)
  /\ PassesThroughFile(prev, pstore, last.key)

\* The number of directory nodes in memory, the root included.
RECURSIVE NodeCount(_), NodeCountSum(_, _)
NodeCountSum(ents, i) ==
  IF i > Len(ents) THEN 0
  ELSE (IF ents[i].tag = "d" THEN NodeCount(ents[i].node) ELSE 0) + NodeCountSum(ents, i + 1)

NodeCount(node) == 1 + (IF node.entries = None THEN 0 ELSE NodeCountSum(Entries(node), 1))

\* The blocks of the written store that were there before the last write_full.
BlocksBefore == IF last.op = "write_full" THEN 0 ELSE Len(pstore)

\* C15: after write_full returns Ok, every directory node is loaded and has
\* an id appended to the store by this call, one block per node, and the root
\* has an id.
C15_FullWriteAssignsIds ==
  (last.op \in {"write_full", "write_full_same"} /\ last.st = "ok") =>
    /\ tree.root.id # None
    /\ \A n \in Nodes(tree.root) : n.entries # None /\ n.id # None
    /\ {n.id[1] : n \in Nodes(tree.root)} = (BlocksBefore + 1)..Len(store)
    /\ Len(store) - BlocksBefore = NodeCount(tree.root)

\* A write_full into a new store has appended a block for each of the two
\* nodes of a tree that had ids for both and had not loaded its subdirectory.
C15_Witness ==
  /\ last.op = "write_full" /\ last.st = "ok"
  /\ ~IsDirty(prev.root)
  /\ \E n \in Nodes(prev.root) : IsUnloaded(n)
  /\ NodeCount(tree.root) = 2
  /\ Len(store) = 2
  /\ \A n \in Nodes(tree.root) : IsCleanLoaded(n)

\* The number of nodes in memory that have no id.
RECURSIVE DirtyCount(_), DirtyCountSum(_, _)
DirtyCountSum(ents, i) ==
  IF i > Len(ents) THEN 0
  ELSE (IF ents[i].tag = "d" THEN DirtyCount(ents[i].node) ELSE 0) + DirtyCountSum(ents, i + 1)

DirtyCount(node) ==
  (IF node.id = None THEN 1 ELSE 0)
  + (IF node.entries = None THEN 0 ELSE DirtyCountSum(Entries(node), 1))

\* What write_delta may change from node b to node a, with `first` the first
\* block id appended by the call: a node that had an id is left as it was,
\* with all beneath it; a node without id gets an appended block's id and
\* keeps its entries, its subdirectories changing in the same way.
RECURSIVE DeltaFrame(_, _, _)
DeltaFrame(b, a, first) ==
  IF b.id # None THEN a = b
  ELSE /\ a.id # None /\ a.id[1] >= first
       /\ b.entries # None /\ a.entries # None
       /\ Len(Entries(a)) = Len(Entries(b))
       /\ \A i \in 1..Len(Entries(b)) :
            /\ Entries(a)[i].name = Entries(b)[i].name
            /\ Entries(a)[i].tag = Entries(b)[i].tag
            /\ Entries(b)[i].tag = "f" => Entries(a)[i] = Entries(b)[i]
            /\ Entries(b)[i].tag = "d" => DeltaFrame(Entries(b)[i].node, Entries(a)[i].node, first)

\* C16: a successful write_delta appends one block for each node that had no
\* id and none for a node that had one; nodes with an id keep it and are not
\* loaded; on a tree whose root has an id it appends nothing and changes
\* nothing.
C16_DeltaWritesDirtyOnly ==
  (last.op = "write_delta" /\ last.st = "ok") =>
    /\ Len(store) - Len(pstore) = DirtyCount(prev.root)
    /\ SubSeq(store, 1, Len(pstore)) = pstore
    /\ DeltaFrame(prev.root, tree.root, Len(pstore) + 1)
    /\ tree.file_count = prev.file_count
    /\ prev.root.id # None => (store = pstore /\ tree = prev)

\* A write_delta has appended the one block of the changed root and left the
\* subdirectory unloaded, with its id.
C16_Witness ==
  /\ last.op = "write_delta" /\ last.st = "ok"
  /\ Len(pstore) = 2 /\ Len(store) = 3
  /\ DirtyCount(prev.root) = 1 /\ IsDirty(prev.root)
  /\ \E n \in Nodes(tree.root) : IsUnloaded(n) /\ n \in Nodes(prev.root)
  /\ tree.root.id = Some(3)

\* ------------------------------------------------- a store from elsewhere
\* A tree opened on a store whose blocks were not written by this tree: the
\* count prefix of a block need not be the number of its entries, and an entry
\* may start with a byte that is neither 'f' nor 'd' (tag "x").
FileItem == [tag |-> "f", data |-> 1, name |-> <<97>>]
DirItem == [tag |-> "d", id |-> 2, name |-> <<Slash>>]
BadItem == [tag |-> "x", name |-> <<>>]

MaxCount == 2
RootItems == {<<>>, <<FileItem>>, <<DirItem>>, <<DirItem, FileItem>>, <<BadItem>>, <<FileItem, BadItem>>}
ChildItems == {<<>>, <<FileItem>>, <<BadItem>>}
RootBlocks == {[count |-> c, items |-> s] : c \in 0..MaxCount, s \in RootItems}
ChildBlocks == {[count |-> c, items |-> s] : c \in 0..(MaxCount - 1), s \in ChildItems}

InitLoad ==
  /\ store \in {<<r, c>> : r \in RootBlocks, c \in ChildBlocks}
  /\ tree \in {TreeOpen(1, n) : n \in 0..(MaxFiles - 1)}
  /\ last = Call("idle", <<>>, 0, "ok", None)
  /\ prev = tree
  /\ pstore = store
  /\ iter = NoIter
  /\ stale = FALSE

\* The calls on the opened tree, all reading from its store.
LoadNext ==
  \/ \E k \in StoreKeys, v \in Vals : Add(k, v, store)
  \/ \E k \in StorePaths : Remove(k, store)
  \/ \E k \in StorePaths : Get(k, store)
  \/ \E k \in StorePaths : HasDir(k, store)
  \/ \E k \in StorePaths : GetNext(k, store)
  \/ GetFirst(store)
  \/ GetNextIter(store)
  \/ Visit(store)
  \/ Forget

SpecLoad == InitLoad /\ [][LoadNext]_vars

CountMismatch(b) == b.count # Len(b.items)
HasUnknownTag(b) == \E i \in 1..Len(b.items) : b.items[i].tag \notin {"f", "d"}
LoadingOps == {"add", "remove", "get", "has_dir", "get_next", "get_first", "visit"}

\* C17: load of a block that holds more or fewer entries than its count
\* prefix states fails with CorruptTree and does not populate the node.
C17_LoadChecksCount ==
  \A n \in Nodes(tree.root) :
    (IsUnloaded(n) /\ n.id[1] \in DOMAIN store /\ CountMismatch(store[n.id[1]])) =>
      load(n, store) = Res("CorruptTree", n, FALSE)

\* A get has loaded the root from a block whose count prefix is 0 and which
\* holds one entry, and has returned that entry's payload.
C17_Witness ==
  /\ last.op = "get" /\ last.st = "ok" /\ last.key = <<97>> /\ last.ret = Some(1)
  /\ IsUnloaded(prev.root) /\ prev.root.id = Some(1)
  /\ store[1] = [count |-> 0, items |-> <<FileItem>>]
  /\ Entries(tree.root) = <<FileEntry(<<97>>, 1)>>


\* C18: when a block being loaded has an entry whose tag is neither 'f' nor
\* 'd', load fails with CorruptTree, the node stays unloaded with its id, and
\* the operation that caused the load returns that error.
C18_UnknownTagIsCorrupt ==
  /\ \A n \in Nodes(tree.root) :
       /\ (IsUnloaded(n) /\ n.id[1] \in DOMAIN store /\ HasUnknownTag(store[n.id[1]])) =>
            load(n, store) = Res("CorruptTree", n, FALSE)
       /\ IsCleanLoaded(n) => ~HasUnknownTag(store[n.id[1]])
  /\ (last.op \in LoadingOps /\ IsUnloaded(prev.root) /\ HasUnknownTag(store[prev.root.id[1]])) =>
       (last.st = "CorruptTree" /\ tree = prev)
  /\ (/\ last.op \in {"get", "add", "remove"} /\ last.key = <<Slash, 97>>
      /\ prev.root.id # None /\ store[prev.root.id[1]].items \in {<<DirItem>>, <<DirItem, FileItem>>}
      /\ HasUnknownTag(store[2])) =>
       /\ last.st = "CorruptTree"
       /\ \E i \in 1..Len(Entries(tree.root)) :
            Entries(tree.root)[i] = DirEntry(<<Slash>>, NodeOpen(2))
       /\ tree.root.id = prev.root.id /\ tree.file_count = prev.file_count

\* A get has failed with CorruptTree on the root block, whose second entry
\* has an unknown tag, and has left the root unloaded.
C18_Witness ==
  /\ last.op = "get" /\ last.st = "CorruptTree" /\ last.ret = None
  /\ store[1].items = <<FileItem, BadItem>>
  /\ IsUnloaded(prev.root) /\ IsUnloaded(tree.root) /\ tree.root.id = Some(1)


\* The file with the smallest key greater than name, or none.
FilesAfter(t, view, name) == {f \in Files(t, view) : KeyLess(name, f[1])}
NextFile(t, view, name) ==
  IF FilesAfter(t, view, name) = {} THEN None
  ELSE Some(CHOOSE f \in FilesAfter(t, view, name) :
              \A g \in FilesAfter(t, view, name) : g[1] = f[1] \/ KeyLess(f[1], g[1]))

\* C19: get_next(name), for any key name that is not empty, returns the file
\* with the smallest key greater than name in the order of the bytes, or none
\* when no file key is greater; name need not be a file of the tree.
C19_GetNextAnyKey ==
  (last.op = "get_next" /\ last.st = "ok" /\ last.key # <<>>) =>
    last.ret = NextFile(prev, pstore, last.key)

\* get_next of the path of a directory has returned the first file in it,
\* while the tree holds a file before and a file after that directory.
C19_Witness ==
  /\ last.op = "get_next" /\ last.st = "ok"
  /\ last.key = <<97, Slash>>
  /\ ~IsFile(prev, pstore, last.key)
  /\ TreeHasDir(prev, pstore, last.key).ret = TRUE
  /\ last.ret # None /\ last.ret[1][1] = <<97, Slash, 97>>
  /\ \E f \in Files(prev, pstore) : KeyLess(f[1], last.key)
  /\ Cardinality(FilesAfter(prev, pstore, last.key)) = 2


\* C20: a visit that succeeds has called the visitor once for each file of
\* the tree, in ascending order of the full keys, each time with a component
\* stack whose concatenation is the file's key and with the file's payload;
\* the component stack is empty again when visit returns.
C20_VisitEachFileOnce ==
  (last.op = "visit" /\ last.st = "ok") =>
    /\ Len(last.ret) = Cardinality(Files(prev, pstore))
    /\ {last.ret[i] : i \in 1..Len(last.ret)} = Files(prev, pstore)
    /\ \A i \in 1..(Len(last.ret) - 1) : KeyLess(last.ret[i][1], last.ret[i + 1][1])
    /\ \E r \in {NodeVisit(prev.root, store, <<>>)} :
         /\ r.st = "ok" /\ r.path = <<>>
         /\ last.ret = [i \in 1..Len(r.ret) |-> <<Concat(r.ret[i][1]), r.ret[i][2]>>]
         /\ \A i \in 1..Len(r.ret) : \A j \in 1..Len(r.ret[i][1]) : r.ret[i][1][j] # <<>>

\* A visit has reported three files: one in a directory and, after that
\* directory, two of the root.
C20_Witness ==
  /\ last.op = "visit" /\ last.st = "ok"
  /\ Len(last.ret) = 3
  /\ last.ret[1] = <<<<Slash, 97>>, 2>>
  /\ last.ret[2][1] = <<97>>
  /\ last.ret[3][1] = <<97, 97>>
  /\ tree.file_count = 3


\* What the caller sees of an empty tree.
LooksEmpty(t, view) ==
  /\ t.file_count = 0
  /\ \A k \in Keys : TreeGet(t, view, k).st = "ok" /\ TreeGet(t, view, k).ret = None
  /\ \A d \in Keys : TreeHasDir(t, view, d).st = "ok" /\ TreeHasDir(t, view, d).ret = FALSE
  /\ TreeGetFirst(t, view).st = "ok" /\ TreeGetFirst(t, view).ret = None

LackingViews == {SubSeq(store, 1, j) : j \in 0..Len(store)}

\* The unloaded nodes of the tree that a call has loaded, full being what the
\* call returns when it reads from the tree's store.
LoadedBy(full) == {n \in Nodes(tree.root) : IsUnloaded(n) /\ n \notin Nodes(full.tree.root)}

\* r is what the call returns when it reads from the view v.
ReadFailureIsError(r, full, v) ==
  /\ r.st = "ok" => (full.st = "ok" /\ r.ret = full.ret)
  /\ r.st # "ok" => r.st \in {"StoreIo", full.st}
  /\ (full.st = "ok" /\ \E n \in LoadedBy(full) : n.id[1] \notin DOMAIN v) => r.st = "StoreIo"

WriteTarget == [blocks |-> <<>>, budget |-> MaxBlocks + 1]
WriteResult(r) == [st |-> r.st, tree |-> r.tree, ret |-> None]

\* C22: when get, has_dir, get_first, get_next, visit, add, remove or
\* write_full needs an unloaded node whose block the store cannot read, the
\* call returns the store's error, not none, false or Ok.
C22_ReadFailureIsError ==
  \A v \in LackingViews :
    /\ \A k \in StorePaths :
         /\ ReadFailureIsError(TreeGet(tree, v, k), TreeGet(tree, store, k), v)
         /\ ReadFailureIsError(TreeHasDir(tree, v, k), TreeHasDir(tree, store, k), v)
         /\ ReadFailureIsError(TreeGetNext(tree, v, k), TreeGetNext(tree, store, k), v)
         /\ ReadFailureIsError(TreeRemove(tree, v, k), TreeRemove(tree, store, k), v)
    /\ \A k \in StoreKeys :
         ReadFailureIsError(TreeAdd(tree, v, k, 1), TreeAdd(tree, store, k, 1), v)
    /\ ReadFailureIsError(TreeGetFirst(tree, v), TreeGetFirst(tree, store), v)
    /\ ReadFailureIsError(TreeVisit(tree, v), TreeVisit(tree, store), v)
    /\ ReadFailureIsError(WriteResult(TreeWriteFull(tree, WriteTarget, v)),
                          WriteResult(TreeWriteFull(tree, WriteTarget, store)), v)

\* A get of a file in an unloaded subdirectory, reading from a NullStore, has
\* returned the store's error; the file is there when read from the store.
C22_Witness ==
  /\ last.op = "get" /\ last.st = "StoreIo" /\ last.ret = None
  /\ last.key = <<Slash, 97>>
  /\ prev.root.entries # None /\ tree = prev
  /\ \E n \in Nodes(prev.root) : IsUnloaded(n)
  /\ TreeGet(prev, pstore, last.key).ret # None


\* Node a is node b with nothing changed but unloaded nodes loaded from view:
\* the same ids, the same entries, the same payloads.
RECURSIVE OnlyLoaded(_, _, _)
OnlyLoaded(b, a, view) ==
  /\ a.id = b.id
  /\ IF a.entries = None THEN b.entries = None
     ELSE /\ b.entries = None => (b.id # None /\ b.id[1] \in DOMAIN view)
          /\ Len(Entries(a)) = Len(EntriesIn(b, view))
          /\ \A i \in 1..Len(Entries(a)) :
               /\ Entries(a)[i].name = EntriesIn(b, view)[i].name
               /\ Entries(a)[i].tag = EntriesIn(b, view)[i].tag
               /\ Entries(a)[i].tag = "f" => Entries(a)[i].file = EntriesIn(b, view)[i].file
               /\ Entries(a)[i].tag = "d" =>
                    OnlyLoaded(EntriesIn(b, view)[i].node, Entries(a)[i].node, view)

FirstFile(t, view) ==
  IF Files(t, view) = {} THEN None
  ELSE Some(CHOOSE f \in Files(t, view) :
              \A g \in Files(t, view) : g[1] = f[1] \/ KeyLess(f[1], g[1]))

GetFirstIsLeast ==
  (last.op = "get_first" /\ last.st = "ok") => last.ret = FirstFile(prev, pstore)

\* C25: get_first returns the file with the least full key, with its payload,
\* and returns none iff the tree holds no file, that is iff file_count = 0.
C25_GetFirstIsSmallest ==
  /\ GetFirstIsLeast
  /\ (last.op = "get_first" /\ last.st = "ok") =>
       /\ (last.ret = None) = (prev.file_count = 0)
       /\ (last.ret = None) = (Files(prev, pstore) = {})

\* get_first has gone into the first directory and into that directory's
\* subdirectory; the tree holds two more files, with greater keys.
C25_Witness ==
  /\ last.op = "get_first" /\ last.st = "ok"
  /\ last.ret # None /\ last.ret[1][1] = <<Slash, Slash, 97>>
  /\ Cardinality(Nodes(prev.root)) = 3
  /\ prev.file_count = 3


\* The nodes in memory on the path of key k, from the node down to the
\* directory that holds, or would hold, the entry of k.
RECURSIVE PathNodes(_, _)
PathNodes(node, k) ==
  {node} \cup
  (IF node.entries = None \/ split_key(k).tail = None THEN {}
   ELSE UNION {IF Entries(node)[i].tag = "d" /\ Entries(node)[i].name = split_key(k).head
               THEN PathNodes(Entries(node)[i].node, split_key(k).tail[1])
               ELSE {} : i \in 1..Len(Entries(node))})

Changed == \/ last.op = "add" /\ last.st = "ok"
           \/ last.op = "remove" /\ last.st = "ok" /\ last.ret = TRUE

\* An add that returned Ok or a remove that returned true has cleared the ids
\* on the path of the key.
PathIsDirty ==
  Changed => (tree.root.id = None /\ \A n \in PathNodes(tree.root, last.key) : n.id = None)

\* A root with an id: the tree opened from that id and the file count
\* returns what the tree in memory returns.
NothingUnpersisted ==
  (Running /\ tree.root.id # None) =>
    /\ tree.root.id[1] \in DOMAIN store
    /\ GetAll(TreeOpen(tree.root.id[1], tree.file_count), store) = GetAll(tree, store)

\* The root gets an id only by a write that succeeds.
IdOnlyByWrite ==
  (tree.root.id = None /\ tree'.root.id # None) =>
    (last'.op \in {"write_full", "write_full_same", "write_delta"} /\ last'.st = "ok")

RECURSIVE LoadedDirs(_, _), UnloadedDirs(_, _), StoredDirs(_, _, _)
LoadedDirs(node, prefix) ==
  IF node.entries = None THEN {}
  ELSE {prefix} \cup
       UNION {IF Entries(node)[i].tag = "d"
              THEN LoadedDirs(Entries(node)[i].node, prefix \o Entries(node)[i].name)
              ELSE {} : i \in 1..Len(Entries(node))}

UnloadedDirs(node, prefix) ==
  IF node.entries = None THEN {prefix}
  ELSE UNION {IF Entries(node)[i].tag = "d"
              THEN UnloadedDirs(Entries(node)[i].node, prefix \o Entries(node)[i].name)
              ELSE {} : i \in 1..Len(Entries(node))}

\* The paths of all directories of the tree, in memory or only in the store.
StoredDirs(node, view, prefix) ==
  {prefix} \cup
  UNION {IF EntriesIn(node, view)[i].tag = "d"
         THEN StoredDirs(EntriesIn(node, view)[i].node, view, prefix \o EntriesIn(node, view)[i].name)
         ELSE {} : i \in 1..Len(EntriesIn(node, view))}

\* The directories of a tree that are not loaded.
NotLoaded(t, view) == StoredDirs(t.root, view, <<>>) \ LoadedDirs(t.root, <<>>)

\* The directories the last call has loaded from the store: those that were
\* not loaded before and are now loaded, or gone from the tree.
LoadedFromStore == NotLoaded(prev, pstore) \ NotLoaded(tree, store)

\* The directories on the path of key k: the root and the ancestors of k.
OnPath(k) == {<<>>} \cup AncestorDirs(k)

KeyOps == {"get", "has_dir", "add", "remove"}

KeyCall(op, t, view, k, v) ==
  IF op = "get" THEN TreeGet(t, view, k)
  ELSE IF op = "has_dir" THEN TreeHasDir(t, view, k)
  ELSE IF op = "add" THEN TreeAdd(t, view, k, v)
  ELSE TreeRemove(t, view, k)

\* C27: get, has_dir, add and remove on key k load only unloaded directories
\* on the path of k, each once, and read nothing for the loaded ones; every
\* directory off that path that was unloaded before the call is unloaded
\* after it.
C27_LazyLoading ==
  last.op \in KeyOps =>
    /\ LoadedFromStore \subseteq OnPath(last.key)
    /\ Cardinality(LoadedFromStore) <= Cardinality(OnPath(last.key))
    /\ \A p \in UnloadedDirs(prev.root, <<>>) \ OnPath(last.key) : p \in UnloadedDirs(tree.root, <<>>)
    /\ (last.st = "ok" /\ LoadedFromStore = {}) =>
         /\ KeyCall(last.op, prev, NullStore, last.key, last.val).st = "ok"
         /\ KeyCall(last.op, prev, NullStore, last.key, last.val).tree = tree

\* A get of a file of the root has loaded the root of an opened tree and has
\* left the subdirectory unloaded.
C27_Witness ==
  /\ last.op = "get" /\ last.st = "ok" /\ last.key = <<97>> /\ last.ret # None
  /\ IsUnloaded(prev.root)
  /\ LoadedFromStore = {<<>>}
  /\ UnloadedDirs(tree.root, <<>>) = {<<Slash>>}
  /\ Files(tree, store) = Files(prev, pstore) /\ tree.file_count = 2


ReadOps == {"get", "has_dir", "get_first", "get_next", "visit"}

\* C28: get, has_dir, get_first, get_next and visit change nothing that can
\* be observed: no node id is cleared or assigned, file_count and the store
\* are as before, and the files and payloads are the same; they only turn
\* unloaded nodes into loaded ones.
C28_ReadsChangeNothing ==
  last.op \in ReadOps =>
    /\ tree.file_count = prev.file_count
    /\ store = pstore
    /\ OnlyLoaded(prev.root, tree.root, pstore)
    /\ (~stale /\ last.st = "ok") =>
         /\ Files(tree, store) = Files(prev, pstore)
         /\ GetAll(tree, store) = GetAll(prev, pstore)
         /\ HasDirAll(tree, store) = HasDirAll(prev, pstore)

\* A visit has loaded the root and the subdirectory of an opened tree.
C28_Witness ==
  /\ last.op = "visit" /\ last.st = "ok" /\ Len(last.ret) = 2
  /\ IsUnloaded(prev.root)
  /\ Cardinality(Nodes(tree.root)) = 2
  /\ \A n \in Nodes(tree.root) : IsCleanLoaded(n)
  /\ tree.root.id = prev.root.id


\* The write_delta that follows, into the same store, with room for every node.
DeltaRetry == TreeWriteDelta(tree, [blocks |-> store, budget |-> MaxBlocks + 1])

AddThenDelta(k, v) ==
  TreeWriteDelta(TreeAdd(tree, store, k, v).tree, [blocks |-> store, budget |-> MaxBlocks + 1])

ReopenedEqual(k, v) ==
  /\ TreeAdd(tree, store, k, v).st = "ok"
  /\ AddThenDelta(k, v).st = "ok"
  /\ GetAll(TreeOpen(AddThenDelta(k, v).tree.root.id[1], AddThenDelta(k, v).tree.file_count),
            AddThenDelta(k, v).w.blocks)
       = GetAll(TreeAdd(tree, store, k, v).tree, store)

\* A write_full into another store has failed on a tree that was persisted
\* in its store.
FullWriteFailed ==
  /\ last.op = "write_full" /\ last.st = "StoreIo"
  /\ prev.root.id # None /\ Coherent(prev, pstore) /\ store = pstore

\* C30: when write_full(B, A) fails part-way on a tree persisted in store A,
\* every node with an id still refers to its block of A, and an add followed
\* by write_delta(A) and opening the tree again from A gives a tree that
\* returns what the tree in memory returns.
C30_PartialFullWrite ==
  FullWriteFailed =>
    /\ Coherent(tree, store)
    /\ \A k \in StoreKeys, v \in Vals : ReopenedEqual(k, v)

\* The failed write_full has left in the tree a node whose id is that of the
\* block appended to the other store; in the tree's store that id is the
\* block of another node.
C30_Witness ==
  /\ FullWriteFailed
  /\ last.ret # <<>>
  /\ \E n \in Nodes(tree.root) :
       /\ IsCleanLoaded(n) /\ n.id[1] \in DOMAIN store
       /\ n.id[1] <= Len(last.ret) /\ EntriesAreBlock(n, last.ret[n.id[1]])
       /\ ~EntriesAreBlock(n, store[n.id[1]])
  /\ \E k \in StoreKeys, v \in Vals : ~ReopenedEqual(k, v)


WriteOps == {"write_full", "write_full_same", "write_delta"}
WriteBudgets == 0..(MaxBlocks + 1)

\* C31: whenever write_entries runs in write_full or write_delta, on any tree
\* that can be reached, every child directory of the node has an id, and in
\* write_delta every node without id has its entries loaded: neither the
\* unwrap nor the expect fails.
C31_WritesNeverPanic ==
  /\ last.op \in WriteOps => last.st \in {"ok", "StoreIo"}
  /\ \A n \in Nodes(tree.root) : n.id = None => n.entries # None
  /\ \A b \in WriteBudgets :
       /\ TreeWriteDelta(tree, [blocks |-> store, budget |-> b]).st \in {"ok", "StoreIo"}
       /\ \A v \in Views :
            TreeWriteFull(tree, [blocks |-> <<>>, budget |-> b], v).st \in {"ok", "StoreIo"}

\* A write_delta has written a new subdirectory and then the root: when
\* write_entries ran on the root, the subdirectory had just got its id.
C31_Witness ==
  /\ last.op = "write_delta" /\ last.st = "ok"
  /\ DirtyCount(prev.root) = 2 /\ DirtyCount(tree.root) = 0
  /\ Cardinality(Nodes(tree.root)) = 2
  /\ tree.root.id = Some(Len(store))
  /\ \E n \in Nodes(tree.root) : n.id = Some(Len(store) - 1)


\* Every directory id recorded in block i of store st, and in the blocks
\* reached from it, is the id of a block of st appended before the block
\* that records it.
RECURSIVE RefsEarlier(_, _)
RefsEarlier(st, i) ==
  /\ i \in DOMAIN st
  /\ \A j \in 1..Len(st[i].items) :
       st[i].items[j].tag = "d" =>
         /\ st[i].items[j].id \in 1..(i - 1)
         /\ RefsEarlier(st, st[i].items[j].id)

WrittenIntact ==
  (last.op \in WriteOps /\ last.st = "ok") =>
    (tree.root.id # None /\ RefsEarlier(store, tree.root.id[1]))

\* A write into the tree's own store leaves the blocks it holds as they are.
BlocksImmutable ==
  last'.op \in {"write_delta", "write_full_same"} =>
    (Len(store') >= Len(store) /\ SubSeq(store', 1, Len(store)) = store)

\* C32: blocks are appended children before parent and never changed, so
\* after a successful write_full or write_delta every directory id recorded
\* in a block reachable from the root id refers to a block of the store that
\* was appended before the block that refers to it.
C32_ReferentialIntegrity == []WrittenIntact /\ [][BlocksImmutable]_vars

\* A write_delta has appended a root block that refers to a subdirectory
\* block of an earlier write, with a block of another root in between.
C32_Witness ==
  /\ last.op = "write_delta" /\ last.st = "ok"
  /\ Len(store) = 3 /\ Len(pstore) = 2
  /\ tree.root.id = Some(3)
  /\ \E j \in 1..Len(store[3].items) : store[3].items[j].tag = "d" /\ store[3].items[j].id = 1
  /\ RefsEarlier(store, 3)


FailedChange == last.op \in {"add", "remove"} /\ last.st \in {"StoreIo", "CorruptTree"}

\* The stores that hold only some of the blocks of the tree's store.
PartViews == {[i \in S |-> store[i]] : S \in SUBSET DOMAIN store}

\* The call op on key k of the tree, reading from v, has failed and has left
\* the tree as it was but for nodes loaded; made again with the tree's store
\* it does what it does on the tree as it was.
FailureLeavesTree(op, v, k) ==
  KeyCall(op, tree, v, k, 1).st = "StoreIo" =>
    /\ OnlyLoaded(tree.root, KeyCall(op, tree, v, k, 1).tree.root, store)
    /\ KeyCall(op, tree, v, k, 1).tree.file_count = tree.file_count
    /\ KeyCall(op, KeyCall(op, tree, v, k, 1).tree, store, k, 1) = KeyCall(op, tree, store, k, 1)

\* C33: when add or remove returns an error because a node on the key's path
\* could not be loaded, no entry is inserted or removed, no id is cleared and
\* file_count is unchanged; the same call made again with a store that can
\* be read does what it would have done without the failed call.
C33_UnchangedOnError ==
  /\ FailedChange =>
    /\ OnlyLoaded(prev.root, tree.root, pstore)
    /\ tree.file_count = prev.file_count
    /\ store = pstore
    /\ Files(tree, store) = Files(prev, pstore)
    /\ KeyCall(last.op, tree, store, last.key, last.val)
         = KeyCall(last.op, prev, pstore, last.key, last.val)
    /\ KeyCall(last.op, tree, store, last.key, last.val).st = "ok"
  /\ ~stale => \A v \in PartViews, k \in StoreKeys :
                 FailureLeavesTree("add", v, k) /\ FailureLeavesTree("remove", v, k)

\* An add into an unloaded subdirectory of a loaded, clean root has failed
\* reading from a NullStore.
C33_Witness ==
  /\ FailedChange /\ last.op = "add" /\ last.key = <<Slash, 97>>
  /\ IsCleanLoaded(prev.root) /\ IsCleanLoaded(tree.root)
  /\ UnloadedDirs(tree.root, <<>>) = {<<Slash>>}
  /\ KeyCall("add", tree, store, last.key, last.val).tree.root.id = None


\* The directory nodes held in memory at and below a node, each with its path.
RECURSIVE DirNodes(_, _)
DirNodes(node, prefix) ==
  {<<prefix, node>>} \cup
  (IF node.entries = None THEN {}
   ELSE UNION {IF Entries(node)[i].tag = "d"
               THEN DirNodes(Entries(node)[i].node, prefix \o Entries(node)[i].name)
               ELSE {} : i \in 1..Len(Entries(node))})

\* The same with the nodes that are only in the store, as they are when
\* their parent is loaded: unloaded, with the id recorded in the block.
RECURSIVE StoredDirNodes(_, _, _)
StoredDirNodes(node, view, prefix) ==
  {<<prefix, node>>} \cup
  UNION {IF EntriesIn(node, view)[i].tag = "d"
         THEN StoredDirNodes(EntriesIn(node, view)[i].node, view, prefix \o EntriesIn(node, view)[i].name)
         ELSE {} : i \in 1..Len(EntriesIn(node, view))}

OffPath(t, k) == {d \in DirNodes(t.root, <<>>) : d[1] \notin OnPath(k)}
OffPathStored(t, view, k) == {d \in StoredDirNodes(t.root, view, <<>>) : d[1] \notin OnPath(k)}

\* C34: add(k, v) and remove(k) leave get(k') as it was for every key k'
\* other than k, and leave the id and the entries of every node that is not
\* on the path from the root to the directory of k as they were.
C34_MutationFrame ==
  (last.op \in {"add", "remove"} /\ last.st = "ok") =>
    /\ \A k \in Keys \ {last.key} :
         /\ TreeGet(tree, store, k).st = TreeGet(prev, pstore, k).st
         /\ TreeGet(tree, store, k).ret = TreeGet(prev, pstore, k).ret
    /\ OffPath(prev, last.key) \subseteq OffPath(tree, last.key)
    /\ OffPath(tree, last.key) \subseteq OffPathStored(prev, pstore, last.key)
    /\ Files(tree, store) \ {f \in Files(tree, store) : f[1] = last.key}
         = Files(prev, pstore) \ {f \in Files(prev, pstore) : f[1] = last.key}

\* An add of a new file to the root of a clean tree has left the unloaded
\* subdirectory beside it as it was, with its id.
C34_Witness ==
  /\ last.op = "add" /\ last.st = "ok" /\ last.key = <<97>>
  /\ ~IsFile(prev, pstore, last.key)
  /\ IsCleanLoaded(prev.root) /\ IsDirty(tree.root)
  /\ OffPath(tree, last.key) # {}
  /\ \A d \in OffPath(tree, last.key) : IsUnloaded(d[2]) /\ d \in OffPath(prev, last.key)
  /\ TreeGet(tree, store, <<Slash, 97>>).ret # None


HasSlash(name) == \E i \in 1..Len(name) : name[i] = Slash
DirectoryNameOk(name) ==
  /\ name # <<>> /\ name[Len(name)] = Slash
  /\ \A i \in 1..(Len(name) - 1) : name[i] # Slash

DirectoryNamesOk ==
  \A n \in Nodes(tree.root) : \A i \in 1..Len(Entries(n)) :
    Entries(n)[i].tag = "d" => DirectoryNameOk(Entries(n)[i].name)

FileNamesOk ==
  \A n \in Nodes(tree.root) : \A i \in 1..Len(Entries(n)) :
    Entries(n)[i].tag = "f" => ~HasSlash(Entries(n)[i].name)

\* File names have no '/' but, possibly, as their last byte.
FileNamesOkButLast ==
  \A n \in Nodes(tree.root) : \A i \in 1..Len(Entries(n)) :
    Entries(n)[i].tag = "f" =>
      (Entries(n)[i].name # <<>> /\ \A j \in 1..(Len(Entries(n)[i].name) - 1) : Entries(n)[i].name[j] # Slash)

\* C35: in every state reached from the empty tree by add and remove with
\* keys that are not empty, the name of every Directory entry ends with '/'
\* and has no other '/', and the name of every File entry has no '/'.
C35_EntryNames == DirectoryNamesOk /\ FileNamesOk

\* add("a/") has returned Ok and the root holds a File entry named "a/".
C35_Witness ==
  /\ last.op = "add" /\ last.st = "ok" /\ last.key = <<97, Slash>>
  /\ prev = TreeNew
  /\ Entries(tree.root) = <<FileEntry(<<97, Slash>>, last.val)>>
  /\ TreeGet(tree, store, <<97, Slash>>).ret = Some(last.val)
  /\ ~FileNamesOk /\ DirectoryNamesOk


\* The directory paths of the tree other than the root.
SubDirs(t, view) == StoredDirs(t.root, view, <<>>) \ {<<>>}

NewNext ==
  \/ Calls(StoreKeys, StorePaths)
  \/ \E b \in 0..MaxBlocks, o \in BOOLEAN : WriteFullNew(b, o)
  \/ \E b \in 0..(MaxBlocks - Len(store)) : WriteFullSame(b)
  \/ \E b \in 0..(MaxBlocks - Len(store)) : WriteDelta(b)

SpecNew == Init /\ [][NewNext]_vars

ReadFailure == {"StoreIo", "CorruptTree", "panic:load"}

\* C37: a tree made by Tree::new() and changed only by add, remove, clear and
\* the writes never reads from the store: all its nodes stay loaded, and
\* every operation on it, write_full with a NullStore as old_view included,
\* succeeds without a store read.
C37_NewTreeNeverReads ==
  /\ \A n \in Nodes(tree.root) : n.entries # None
  /\ last.op \notin WriteOps => last.st \notin ReadFailure
  /\ TreeWriteFull(tree, WriteTarget, NullStore).st = "ok"
  /\ TreeGetFirst(tree, NullStore).st = "ok"
  /\ TreeVisit(tree, NullStore).st = "ok"
  /\ \A k \in StorePaths :
       /\ \A op \in KeyOps :
            KeyCall(op, tree, NullStore, k, 1).st \notin ReadFailure
       /\ TreeGetNext(tree, NullStore, k).st = "ok"

\* A tree that had been written, and has got a subdirectory since, has been
\* written in full into its store, with a NullStore as old_view.
C37_Witness ==
  /\ last.op = "write_full_same" /\ last.st = "ok"
  /\ Len(pstore) = 1 /\ Len(store) = 3
  /\ Cardinality(Nodes(tree.root)) = 2
  /\ \A n \in Nodes(tree.root) : IsCleanLoaded(n)
  /\ tree.file_count = 2


\* ---------------------------------------------------------------- any key, the empty one included
\* split_key computes key.len() - 1 in usize.  With overflow checks (debug and
\* test builds) a subtraction below zero aborts; without them (release builds)
\* it wraps around.  usize is 64 bits wide; the model keeps 30 bits: a
\* wrapped value is larger than every key is long in either width.
UsizeModulus == 2^30
Builds == {"debug", "release"}

\* a - b in usize: None is the abort of a build with overflow checks.
usize_sub(a, b, build) ==
  IF a >= b THEN Some(a - b)
  ELSE IF build = "debug" THEN None
  ELSE Some((a - b) % UsizeModulus)

\* key.iter().take(n).enumerate(): the indices the loop visits.
TakeIndices(key, n) == 1..(IF n < Len(key) THEN n ELSE Len(key))

\* split_key as a build computes it; st = "panic" is the abort.
split_keyIn(key, build) ==
  Bind(usize_sub(Len(key), 1, build), LAMBDA n :
    IF n = None THEN [st |-> "panic", head |-> key, tail |-> None]
    ELSE Bind({i \in TakeIndices(key, n[1]) : key[i] = Slash}, LAMBDA idx :
      IF idx = {} THEN [st |-> "ok", head |-> key, tail |-> None]
      ELSE Bind(MinOf(idx), LAMBDA i :
             [st |-> "ok", head |-> SubSeq(key, 1, i),
              tail |-> Some(SubSeq(key, i + 1, Len(key)))])))

AllKeys == Keys \cup {<<>>}
LookupOps == {"get", "has_dir", "remove", "get_next"}

\* get, has_dir, remove and get_next begin with split_key(name), in
\* path_recurse or in get_next itself, before anything else is done.
LookupCall(build, op, t, view, name) ==
  IF split_keyIn(name, build).st = "panic" THEN TRes("panic", t, None)
  ELSE IF op = "get_next" THEN TreeGetNext(t, view, name)
  ELSE KeyCall(op, t, view, name, 0)

Lookup(build, op, name, view) ==
  /\ IF op = "remove" THEN MayChange(name) ELSE MayCall
  /\ \E r \in {LookupCall(build, op, tree, view, name)} : Record(r, op, name, 0)

KeysNext ==
  \/ Calls(StoreKeys, StorePaths)
  \/ \E b \in Builds, op \in LookupOps, k \in AllKeys, w \in Views : Lookup(b, op, k, w)

SpecKeys == Init /\ [][KeysNext]_vars

WellFormed(key, r) ==
  /\ r.st = "ok"
  /\ r.tail = None => r.head = key
  /\ r.tail # None =>
       /\ r.tail[1] # <<>>
       /\ r.head # <<>> /\ r.head[Len(r.head)] = Slash
       /\ r.head \o r.tail[1] = key

\* C38: split_key is total and well-formed on every key, the empty key
\* included: it never underflows or aborts, a returned tail is never empty,
\* the head ends with '/' whenever a tail is returned, and head followed by
\* tail is the key; hence get, has_dir, remove and get_next never abort on
\* any key.
C38_SplitKeyTotal ==
  /\ \A k \in AllKeys, b \in Builds : WellFormed(k, split_keyIn(k, b))
  /\ last.op \in LookupOps => last.st # "panic"
  /\ MayCall =>
       \A k \in AllKeys, b \in Builds, op \in LookupOps, w \in Views :
          LookupCall(b, op, tree, w, k).st # "panic"

\* What holds of split_key: on every key that is not empty it is well-formed
\* in either build and is what the operations of the tree split by; on the
\* empty key a build without overflow checks returns the key and no tail; and
\* get, has_dir, remove and get_next abort on no key but the empty one.
C38_SplitKeyNonEmpty ==
  /\ \A k \in Keys, b \in Builds :
       /\ WellFormed(k, split_keyIn(k, b))
       /\ split_keyIn(k, b).head = split_key(k).head
       /\ split_keyIn(k, b).tail = split_key(k).tail
  /\ split_keyIn(<<>>, "release") = [st |-> "ok", head |-> <<>>, tail |-> None]
  /\ split_key(<<>>) = [head |-> <<>>, tail |-> None]
  /\ split_keyIn(<<>>, "debug").st = "panic"
  /\ last.op \in LookupOps /\ last.key # <<>> => last.st # "panic"
  /\ MayCall =>
       /\ \A k \in Keys, b \in Builds, op \in LookupOps, w \in Views :
            LookupCall(b, op, tree, w, k).st # "panic"
       /\ \A op \in LookupOps, w \in Views :
            LookupCall("release", op, tree, w, <<>>).st # "panic"

\* get with the empty key has aborted on a tree that holds files.
C38_Witness ==
  /\ last.op = "get" /\ last.key = <<>> /\ last.st = "panic"
  /\ tree.file_count >= 1
  /\ tree = prev

====
